---- MODULE Spec2Model ----
(***************************************************************************)
(* Intent routing and the stateful space-registration dialogue of          *)
(* src/src/index.ts, as a state machine over the key-value store.          *)
(*                                                                         *)
(* The store holds three kinds of entries: chat_session:<id> (chat),       *)
(* space_registration:<id> (reg) and space-<n> (spaces).  A request        *)
(* (handleIntentAnalysisRequest) is a process that takes one step per      *)
(* awaited store or gateway call, so that requests interleave exactly      *)
(* where the code awaits.  Every store or gateway call may fail; where     *)
(* the failure is caught is taken from the try/catch blocks of the code.   *)
(*                                                                         *)
(* Not modelled: the last_updated / created_at fields of the persisted     *)
(* session and registration state (no decision of the code reads them),    *)
(* and the text of prompts and replies (a reply is the template that       *)
(* produced it and the values substituted into it).                        *)
(***************************************************************************)
EXTENDS Integers, Sequences, FiniteSets, TLC

VARIABLES
    chat,     \* chat_session:<sid>      [exists, messages]
    reg,      \* space_registration:<sid> [exists, step, data]
    spaces,   \* space-<n>, a function from the stored n to the record
    clock,    \* Date.now()
    req,      \* the requests in flight, one per slot
    probe     \* a function of the code applied to an input, with its result

vars == <<chat, reg, spaces, clock, req, probe>>

(***************************************************************************)
(* JSON values.  The extracted value is typed `any`: it is whatever the    *)
(* gateway's JSON holds.  A value is named by a string; "undefined" is a   *)
(* key that is missing, "absent" a key the object does not have.           *)
(***************************************************************************)
JNull == "null"
JUndef == "undefined"
Absent == "absent"
EmptyStr == "str:"
EmptyArr == "arr:"
ClosedHours == "obj:closed"
CoordZero == "obj:0,0"

\* JavaScript's falsy values among the ones modelled (the left side of ||).
Falsy(v) == v \in {JNull, JUndef, Absent, EmptyStr, "num:0", "bool:false"}

\* a || d
OrElse(v, d) == IF Falsy(v) THEN d ELSE v

\* Reading obj.key: a key the object does not have reads as undefined.
ReadKey(data, k) == IF data[k] = Absent THEN JUndef ELSE data[k]

(***************************************************************************)
(* SPACE_REGISTRATION_STEPS                                                *)
(***************************************************************************)
SPACE_REGISTRATION_STEPS ==
    << [step |-> 1, field_name |-> "name",          required |-> TRUE],
       [step |-> 2, field_name |-> "address",       required |-> TRUE],
       [step |-> 3, field_name |-> "space_type",    required |-> TRUE],
       [step |-> 4, field_name |-> "max_capacity",  required |-> TRUE],
       [step |-> 5, field_name |-> "area_size",     required |-> TRUE],
       [step |-> 6, field_name |-> "amenities",     required |-> FALSE],
       [step |-> 7, field_name |-> "fee_policy",    required |-> TRUE],
       [step |-> 8, field_name |-> "opening_hours", required |-> TRUE] >>

NSteps == Len(SPACE_REGISTRATION_STEPS)

FieldNames == { SPACE_REGISTRATION_STEPS[i].field_name : i \in 1..NSteps }

\* SPACE_REGISTRATION_STEPS.find(step => step.step === n): the index of the
\* first entry with that step number, 0 when there is none (undefined).
FindStep(n) ==
    LET hits == { i \in 1..NSteps : SPACE_REGISTRATION_STEPS[i].step = n }
    IN  IF hits = {} THEN 0
        ELSE CHOOSE i \in hits : \A j \in hits : i <= j

EmptyData == [f \in FieldNames |-> Absent]

Keys(data) == { f \in FieldNames : data[f] # Absent }

NoState == [exists |-> FALSE, step |-> 0, data |-> EmptyData]

\* JSON.stringify followed by JSON.parse of collected_data: a key whose value
\* is undefined is dropped.
JsonRoundTrip(data) ==
    [f \in FieldNames |-> IF data[f] = JUndef THEN Absent ELSE data[f]]

\* What KV.put(stateKey, JSON.stringify(state)) leaves in the store.
Persisted(state) ==
    [exists |-> TRUE, step |-> state.step, data |-> JsonRoundTrip(state.data)]

(***************************************************************************)
(* Chat sessions                                                           *)
(***************************************************************************)
SessionCap == 20
ContextCap == 10

NoSession == [exists |-> FALSE, messages |-> << >>]

\* Array.prototype.slice(-n)
SliceLast(s, n) ==
    IF Len(s) <= n THEN s ELSE SubSeq(s, Len(s) - n + 1, Len(s))

PushAndTrimLate(loaded, message) ==
    LET messages == IF loaded.exists THEN loaded.messages ELSE << >>
        pushed   == Append(messages, message)
    IN  IF Len(pushed) > SessionCap + 1 THEN SliceLast(pushed, SessionCap) ELSE pushed

\* An addMessageToSession that stores the new message alone.
PushAlone(loaded, message) == << message >>

\* addMessageToSession between the read and the write: the session read (or a
\* new one), the message pushed, cut to the last 20.
PushAndTrim(loaded, message) ==
    LET messages == IF loaded.exists THEN loaded.messages ELSE << >>
        pushed   == Append(messages, message)
    IN  IF Len(pushed) > SessionCap THEN SliceLast(pushed, SessionCap) ELSE pushed

\* getConversationContext on the session read
ContextOf(loaded) ==
    IF loaded.exists THEN SliceLast(loaded.messages, ContextCap) ELSE << >>

(***************************************************************************)
(* Intent classification (analyzeIntentWithLLM)                            *)
(*                                                                         *)
(* A reply of the gateway is a sequence of words.  toUpperCase maps a word *)
(* to its upper-case form, trim drops the white space at both ends, and    *)
(* includes(label) holds when some word holds the label as a substring     *)
(* (case-sensitively: "add_space" does not include "ADD_SPACE").           *)
(***************************************************************************)
Labels == <<"SEARCH_SPACE", "ADD_SPACE", "CREATE_USER_PROFILE">>

IntentTypes == { Labels[i] : i \in 1..Len(Labels) }

WS == " "

Words == { WS, "search_space", "ADD_SPACE", "add_spaces", "CREATE_USER_PROFILE",
           "Create_User_Profile", "hello" }

\* String.prototype.toUpperCase, word by word
UpperWord(w) ==
    CASE w = "search_space"        -> "SEARCH_SPACE"
      [] w = "add_spaces"          -> "ADD_SPACES"
      [] w = "Create_User_Profile" -> "CREATE_USER_PROFILE"
      [] w = "hello"               -> "HELLO"
      [] OTHER                     -> w

ToUpperCase(text) == [i \in 1..Len(text) |-> UpperWord(text[i])]

\* String.prototype.trim
RECURSIVE TrimLeft(_)
TrimLeft(text) ==
    IF text # << >> /\ Head(text) = WS THEN TrimLeft(Tail(text)) ELSE text

RECURSIVE TrimRight(_)
TrimRight(text) ==
    IF text # << >> /\ text[Len(text)] = WS
    THEN TrimRight(SubSeq(text, 1, Len(text) - 1))
    ELSE text

Trim(text) == TrimRight(TrimLeft(text))

\* word.includes(label), by the characters of the two
WordIncludes(w, label) ==
    \/ w = label
    \/ w = "ADD_SPACES" /\ label = "ADD_SPACE"

\* String.prototype.includes
Includes(text, label) == \E i \in 1..Len(text) : WordIncludes(text[i], label)

\* The if / else-if chain on the normalised reply.
MatchIntentSwapped(intentResult) ==
    IF Includes(intentResult, "ADD_SPACE") THEN "ADD_SPACE"
    ELSE IF Includes(intentResult, "SEARCH_SPACE") THEN "SEARCH_SPACE"
    ELSE IF Includes(intentResult, "CREATE_USER_PROFILE") THEN "CREATE_USER_PROFILE"
    ELSE "SEARCH_SPACE"

MatchIntent(intentResult) ==
    IF Includes(intentResult, "SEARCH_SPACE") THEN "SEARCH_SPACE"
    ELSE IF Includes(intentResult, "ADD_SPACE") THEN "ADD_SPACE"
    ELSE IF Includes(intentResult, "CREATE_USER_PROFILE") THEN "CREATE_USER_PROFILE"
    ELSE "SEARCH_SPACE"

\* What the catch block of analyzeIntentWithLLM returns.
IntentOnErrorNone == "NONE"

IntentOnError == "SEARCH_SPACE"

\* analyzeIntentWithLLM of index.ts on a gateway outcome g = [ok, shape, text]:
\* generateContent or response.text() throws (~g.ok), or the text comes back.
analyzeIntentWithLLM(g) ==
    IF ~g.ok THEN IntentOnError
    ELSE MatchIntent(ToUpperCase(Trim(g.text)))

\* analyzeIntentWithLLM of the Workers AI revision (src/unnamed/part_000):
\* the response is a string, an object with a string "response", an object
\* whose "response" is no string (.trim throws), or anything else
\* (intentResult stays "").
analyzeIntentWorkersAI(g) ==
    IF ~g.ok THEN IntentOnError
    ELSE CASE g.shape = "string"     -> MatchIntent(ToUpperCase(Trim(g.text)))
           [] g.shape = "object"     -> MatchIntent(ToUpperCase(Trim(g.text)))
           [] g.shape = "bad_object" -> IntentOnError
           [] OTHER                  -> MatchIntent(<< >>)

(***************************************************************************)
(* Failures.  A store or gateway call may throw.  The exception travels up *)
(* the chain of functions that enclose the call and stops at the first one *)
(* that has a try/catch.                                                   *)
(***************************************************************************)
TryBlocksNoFlowCatch ==
    { "getChatSession", "saveChatSession", "addMessageToSession",
      "getConversationContext", "getSpaceRegistrationState",
      "saveSpaceRegistrationState", "extractSpaceDataFromMessage",
      "generateSpaceId", "getAllSpacesFromKV", "analyzeIntentWithLLM",
      "handleSearchSpaceFlow", "generateSearchResultResponse",
      "generateIntentResponse", "handleIntentAnalysisRequest" }

\* The functions whose body is a try/catch (initializeSpaceRegistration,
\* filterSpacesByMessage and convertKVSpaceToSpaceInfo have none).
TryBlocks ==
    { "getChatSession", "saveChatSession", "addMessageToSession",
      "getConversationContext", "getSpaceRegistrationState",
      "saveSpaceRegistrationState", "extractSpaceDataFromMessage",
      "generateSpaceId", "getAllSpacesFromKV", "analyzeIntentWithLLM",
      "handleAddSpaceFlow", "handleSearchSpaceFlow",
      "generateSearchResultResponse", "generateIntentResponse",
      "handleIntentAnalysisRequest" }

\* The first function of the chain (innermost first) that catches.
RECURSIVE Catcher(_)
Catcher(chain) ==
    IF chain = << >> THEN "uncaught"
    ELSE IF Head(chain) \in TryBlocks THEN Head(chain)
    ELSE Catcher(Tail(chain))

\* The call sites and the functions enclosing each, innermost first.
Sites ==
    { "chat_get", "chat_put", "ctx_get", "gw_intent", "reg_get", "reg_put",
      "gw_extract", "ids_list", "space_put", "reg_delete", "all_list",
      "all_get", "search_map", "gw_search", "gw_generic" }

Chain(site) ==
    CASE site = "chat_get"   -> <<"getChatSession", "addMessageToSession", "handleIntentAnalysisRequest">>
      [] site = "chat_put"   -> <<"saveChatSession", "addMessageToSession", "handleIntentAnalysisRequest">>
      [] site = "ctx_get"    -> <<"getChatSession", "getConversationContext", "handleIntentAnalysisRequest">>
      [] site = "gw_intent"  -> <<"analyzeIntentWithLLM", "handleIntentAnalysisRequest">>
      [] site = "reg_get"    -> <<"getSpaceRegistrationState", "handleAddSpaceFlow", "handleIntentAnalysisRequest">>
      [] site = "reg_put"    -> <<"saveSpaceRegistrationState", "handleAddSpaceFlow", "handleIntentAnalysisRequest">>
      [] site = "gw_extract" -> <<"extractSpaceDataFromMessage", "handleAddSpaceFlow", "handleIntentAnalysisRequest">>
      [] site = "ids_list"   -> <<"generateSpaceId", "handleAddSpaceFlow", "handleIntentAnalysisRequest">>
      [] site = "space_put"  -> <<"handleAddSpaceFlow", "handleIntentAnalysisRequest">>
      [] site = "reg_delete" -> <<"handleAddSpaceFlow", "handleIntentAnalysisRequest">>
      [] site = "all_list"   -> <<"getAllSpacesFromKV", "handleSearchSpaceFlow", "handleIntentAnalysisRequest">>
      [] site = "all_get"    -> <<"getAllSpacesFromKV", "handleSearchSpaceFlow", "handleIntentAnalysisRequest">>
      [] site = "search_map" -> <<"handleSearchSpaceFlow", "handleIntentAnalysisRequest">>
      [] site = "gw_search"  -> <<"generateSearchResultResponse", "handleSearchSpaceFlow", "handleIntentAnalysisRequest">>
      [] site = "gw_generic" -> <<"generateIntentResponse", "handleIntentAnalysisRequest">>

CaughtBy(site) == Catcher(Chain(site))

(***************************************************************************)
(* A request in flight                                                     *)
(***************************************************************************)
NoExtraction == [extracted |-> JNull, isValid |-> "bool:false", called |-> FALSE]

NoReply ==
    [kind |-> "none", field |-> "-", next |-> "-", space_id |-> 0, count |-> 0, first |-> 0]

NoSpace ==
    [space_id |-> 0, name |-> Absent, space_type |-> Absent, address |-> Absent,
     coordinate |-> Absent, max_capacity |-> Absent, area_size |-> Absent,
     amenities |-> Absent, fee_policy |-> Absent, opening_hours |-> Absent,
     sensors |-> [noise |-> FALSE, cctv |-> FALSE],
     booking_policy |-> [cancellation |-> FALSE, modification |-> FALSE,
                         reservation_required |-> FALSE, deposit_required |-> FALSE]]

NoSpaces == [k \in {} |-> NoSpace]

NoKeys == [chat |-> {}, reg |-> {}, space |-> {}]

IdleRequest ==
    [pc        |-> "idle",
     sid       |-> "-",
     message   |-> {},            \* the recognised keywords the message includes
     ts        |-> 0,             \* userMessage.timestamp
     ats       |-> 0,             \* assistantMessage.timestamp
     session   |-> << >>,         \* session.messages between read and write
     context   |-> << >>,         \* conversationContext
     intentType |-> "NONE",
     state     |-> NoState,       \* the registration state in memory
     start     |-> NoState,       \* the registration state as loaded or created
     currentStep |-> 0,           \* index into SPACE_REGISTRATION_STEPS
     extractionResult |-> NoExtraction,
     spaceId   |-> 0,
     keys      |-> NoKeys,        \* the keys listed by the search
     data      |-> {},            \* the search result (keys of the records)
     foreign   |-> {},            \* the search result (keys of other entries)
     total_count |-> 0,
     search_mode |-> "-",
     reply     |-> NoReply,       \* llm_response
     is_completed |-> FALSE,
     status    |-> "NONE",        \* the payload's status
     error     |-> "",            \* the payload's error message
     body      |-> [json |-> "-", message |-> "undefined", session_id |-> "undefined"],
     \* history of the request, read by the properties only
     before    |-> [reg |-> NoState, spaces |-> NoSpaces, chat |-> NoSession],
     prev      |-> [intentType |-> "NONE", reg |-> NoState],  \* the request before
     loaded    |-> NoSession,     \* the session the last addMessageToSession read
     failed    |-> {},            \* the call sites that failed
     wrote     |-> {}]            \* the keys of the SpaceRecords written

\* Whether the call at `site` may fail under profile P.
Outcomes(P, site) == IF site \in P.fail THEN {TRUE, FALSE} ELSE {TRUE}

\* The history of a request is kept under the profiles that read it.
Failed(P, q, site) == IF P.track THEN [q EXCEPT !.failed = @ \cup {site}] ELSE q

\* createFailureResponse from the catch of handleIntentAnalysisRequest
RequestCatch(q) ==
    [q EXCEPT !.pc = "done", !.status = "FAILURE", !.reply = NoReply,
              !.error = "Failed to process intent analysis request"]

\* The catch of handleAddSpaceFlow, and the assistant turn that follows.
AddSpaceCatch(q) ==
    [q EXCEPT !.pc = "a_get",
              !.reply = [NoReply EXCEPT !.kind = "add_space_catch"],
              !.is_completed = FALSE]

\* The catch of handleSearchSpaceFlow.
SearchCatch(q) ==
    [q EXCEPT !.pc = "a_get",
              !.reply = [NoReply EXCEPT !.kind = "search_catch"],
              !.data = {}, !.total_count = 0, !.search_mode = "ERROR"]

\* Where a request goes when the exception of a failed call is caught by
\* function c, for the catchers whose recovery is the same at every site.
Caught(q, c) ==
    CASE c = "handleAddSpaceFlow"          -> AddSpaceCatch(q)
      [] c = "handleSearchSpaceFlow"       -> SearchCatch(q)
      [] c = "handleIntentAnalysisRequest" -> RequestCatch(q)
      [] OTHER                             -> [q EXCEPT !.pc = "crashed", !.status = "EXCEPTION"]

\* The flow has returned its result: its locals are gone.
FlowReturned(P, q) ==
    IF P.track THEN q
    ELSE [q EXCEPT !.state = NoState, !.start = NoState, !.currentStep = 0,
                   !.extractionResult = NoExtraction, !.spaceId = 0,
                   !.keys = NoKeys, !.context = << >>]

\* The next reading of Date.now().  Under a profile that observes the
\* program for no bounded time the readings are told apart up to P.maxClock
\* and are P.maxClock from then on.
Tick(P) == IF P.saturate /\ clock >= P.maxClock THEN clock ELSE clock + 1

\* One step of request r to the record q: Date.now() is read for the
\* assistant turn when the flow has returned.
Step(P, r, q) ==
    LET returned == q.pc = "a_get" /\ req[r].pc # "a_get"
    IN  /\ req' = [req EXCEPT ![r] = IF returned
                                     THEN [FlowReturned(P, q) EXCEPT !.ats = clock]
                                     ELSE q]
        /\ clock' = IF returned THEN Tick(P) ELSE clock

(***************************************************************************)
(* handleIntentAnalysisRequest: the turns, the context, the classification *)
(***************************************************************************)
\* A validated request arrives: the user turn is stamped.
Receive(r, P) ==
    /\ req[r].pc \in {"idle", "done"}
    /\ P.saturate \/ clock < P.maxClock
    /\ \E sid \in P.sessions, message \in P.messages :
          req' = [req EXCEPT ![r] =
                    [IdleRequest EXCEPT !.pc = "u_get", !.sid = sid,
                                        !.message = message, !.ts = clock,
                                        !.before = IF P.track
                                                   THEN [reg |-> reg[sid], spaces |-> spaces,
                                                         chat |-> chat[sid]]
                                                   ELSE IdleRequest.before,
                                        !.prev = IF P.track /\ req[r].sid = sid
                                                 THEN [intentType |-> req[r].intentType,
                                                       reg |-> req[r].before.reg]
                                                 ELSE IdleRequest.prev]]
    /\ clock' = Tick(P)
    /\ UNCHANGED <<chat, reg, spaces, probe>>

\* The content of a user turn: the text of the message, of which the turns
\* record that it is the user's.
UserText == [NoReply EXCEPT !.kind = "message"]

\* The turn that addMessageToSession is adding at this point of the request.
MessageOf(q) ==
    IF q.pc \in {"u_get", "u_put"}
    THEN [role |-> "user", timestamp |-> q.ts,
          content |-> UserText, intent_type |-> "undefined"]
    ELSE [role |-> "assistant", timestamp |-> q.ats,
          content |-> q.reply, intent_type |-> q.intentType]

\* The turn as the model keeps it: with its content and intent under the
\* profiles whose properties read them, by role and time under the others.
Turn(P, q) ==
    IF P.content THEN MessageOf(q)
    ELSE [MessageOf(q) EXCEPT !.content = NoReply, !.intent_type = "-"]

\* addMessageToSession has returned: on with the request.  When the assistant
\* turn is added the response is returned, and the locals are gone.
AfterAdd(P, q) ==
    IF q.pc \in {"u_get", "u_put"}
    THEN [q EXCEPT !.pc = "ctx_get", !.session = << >>]
    ELSE IF P.track
    THEN [q EXCEPT !.pc = "done", !.status = "SUCCESS"]
    ELSE [IdleRequest EXCEPT !.pc = "done", !.status = "SUCCESS", !.sid = q.sid,
                             !.intentType = q.intentType, !.reply = q.reply]

\* A conversation key that leaves the session_id out: one key for all.
ChatSessionKeyShared(sessionId) == CHOOSE s \in DOMAIN chat : TRUE

\* The key of a conversation, `chat_session:${sessionId}`: the store keeps
\* the conversations in a map of their own, by the session_id of the key.
ChatSessionKey(sessionId) == sessionId

\* The key of a registration state, `space_registration:${sessionId}`: the
\* store keeps the registration states in a map of their own, by the
\* session_id of the key.
RegistrationKey(sessionId) == sessionId

\* addMessageToSession, the read: getChatSession, the push and the cut.
AddMessageGet(r, P) ==
    LET q == req[r] IN
    /\ q.pc \in {"u_get", "a_get"}
    /\ \E ok \in Outcomes(P, "chat_get") :
          LET c      == CaughtBy("chat_get")
              loaded == IF ok THEN chat[ChatSessionKey(q.sid)] ELSE NoSession
              q1     == IF ok THEN q ELSE Failed(P, q, "chat_get")
          IN  Step(P, r, IF ok \/ c = "getChatSession"
                      THEN [q1 EXCEPT !.pc = IF q.pc = "u_get" THEN "u_put" ELSE "a_put",
                                      !.session = PushAndTrim(loaded, Turn(P, q)),
                                      !.loaded = IF P.track THEN loaded ELSE NoSession]
                      ELSE IF c = "addMessageToSession" THEN AfterAdd(P, q1)
                      ELSE Caught(q1, c))
    /\ UNCHANGED <<chat, reg, spaces, probe>>

\* addMessageToSession, the write: saveChatSession.
AddMessagePut(r, P) ==
    LET q == req[r] IN
    /\ q.pc \in {"u_put", "a_put"}
    /\ \E ok \in Outcomes(P, "chat_put") :
          LET c  == CaughtBy("chat_put")
              q1 == IF ok THEN q ELSE Failed(P, q, "chat_put")
          IN  /\ chat' = IF ok
                         THEN [chat EXCEPT ![ChatSessionKey(q.sid)] = [exists |-> TRUE, messages |-> q.session]]
                         ELSE chat
              /\ Step(P, r, IF ok \/ c \in {"saveChatSession", "addMessageToSession"}
                         THEN AfterAdd(P, q1)
                         ELSE Caught(q1, c))
    /\ UNCHANGED <<reg, spaces, probe>>

\* getConversationContext
GetContext(r, P) ==
    LET q == req[r] IN
    /\ q.pc = "ctx_get"
    /\ \E ok \in Outcomes(P, "ctx_get") :
          LET c  == CaughtBy("ctx_get")
              q1 == IF ok THEN q ELSE Failed(P, q, "ctx_get")
          IN  Step(P, r, IF ok
                      THEN [q1 EXCEPT !.pc = "classify", !.context = ContextOf(chat[ChatSessionKey(q.sid)])]
                      ELSE IF c = "getChatSession"
                      THEN [q1 EXCEPT !.pc = "classify", !.context = ContextOf(NoSession)]
                      ELSE IF c = "getConversationContext"
                      THEN [q1 EXCEPT !.pc = "classify", !.context = << >>]
                      ELSE Caught(q1, c))
    /\ UNCHANGED <<chat, reg, spaces, probe>>

\* A dispatch that has no branch for the search.
DispatchWithoutSearch(intentType) ==
    IF intentType = "ADD_SPACE" THEN "as_get" ELSE "gi_gen"

\* The branch of handleIntentAnalysisRequest taken for an intent.
Dispatch(intentType) ==
    IF intentType = "SEARCH_SPACE" THEN "ss_list"
    ELSE IF intentType = "ADD_SPACE" THEN "as_get"
    ELSE "gi_gen"

\* analyzeIntentWithLLM on one outcome of the gateway, and the dispatch.
Classify(r, P) ==
    LET q == req[r] IN
    /\ q.pc = "classify"
    /\ \E g \in { o \in P.replies : o.ok \/ "gw_intent" \in P.fail } :
          LET c  == CaughtBy("gw_intent")
              q1 == IF g.ok THEN q ELSE Failed(P, q, "gw_intent")
          IN  Step(P, r, IF g.ok \/ c = "analyzeIntentWithLLM"
                      THEN [q1 EXCEPT !.intentType = analyzeIntentWithLLM(g),
                                      !.pc = Dispatch(analyzeIntentWithLLM(g))]
                      ELSE Caught(q1, c))
    /\ UNCHANGED <<chat, reg, spaces, probe>>

(***************************************************************************)
(* handleAddSpaceFlow                                                      *)
(***************************************************************************)
Truthy(v) == ~Falsy(v)

\* extractSpaceDataFromMessage on one outcome of the gateway
\* g = [ok, parsed, is_valid, extracted_value]: the call throws (~g.ok), the
\* text is no JSON object (~g.parsed), or the two keys are read from it.
extractSpaceDataFromMessage(g) ==
    IF ~g.ok THEN [extracted |-> JNull, isValid |-> "bool:false", called |-> TRUE]
    ELSE IF ~g.parsed THEN [extracted |-> JNull, isValid |-> "bool:false", called |-> TRUE]
    ELSE [extracted |-> g.extracted_value, isValid |-> g.is_valid, called |-> TRUE]

\* A condition that no extraction result meets.
AcceptedNever(extractionResult) == FALSE

\* The condition of the if at line 804.
Accepted(extractionResult) ==
    Truthy(extractionResult.isValid) /\ extractionResult.extracted # JNull

\* A flow that starts the registration over when the step has no entry.
WithStateRestart(q, state) ==
    IF FindStep(state.step) = 0
    THEN [q EXCEPT !.pc = "as_init"]
    ELSE [q EXCEPT !.state = state, !.start = state, !.currentStep = FindStep(state.step),
                   !.pc = "as_extract"]

\* The state is known: look the step up, and stop where there is none.
WithState(q, state) ==
    IF FindStep(state.step) = 0
    THEN [q EXCEPT !.state = state, !.start = state, !.pc = "a_get",
                   !.reply = [NoReply EXCEPT !.kind = "add_space_error"]]
    ELSE [q EXCEPT !.state = state, !.start = state, !.currentStep = FindStep(state.step),
                   !.pc = "as_extract"]

CollectTwice(state, field, value) ==
    [state EXCEPT !.data[field] = value, !.step = reg["A"].step + 1]

\* A transition that files the value and goes two steps on.
CollectSkips(state, field, value) ==
    [state EXCEPT !.data[field] = value, !.step = @ + 2]

CollectSameStep(state, field, value) == [state EXCEPT !.data[field] = value]

\* The field is filed and the step incremented, in memory.
Collect(state, field, value) ==
    [state EXCEPT !.data[field] = value, !.step = @ + 1]

\* A transition that finalizes on every accepted extraction.
TransitionFinalizesAtOnce(q) ==
    IF Accepted(q.extractionResult)
    THEN [q EXCEPT !.state = Collect(q.state,
                                     SPACE_REGISTRATION_STEPS[q.currentStep].field_name,
                                     q.extractionResult.extracted),
                   !.pc = "as_genid"]
    ELSE [q EXCEPT !.pc = "as_save_retry"]

TransitionAsksAgain(q) == [q EXCEPT !.pc = "as_save_retry"]

\* Lines 804-815 and 887: what the flow does with the extraction result.
Transition(q) ==
    IF Accepted(q.extractionResult)
    THEN LET state == Collect(q.state,
                              SPACE_REGISTRATION_STEPS[q.currentStep].field_name,
                              q.extractionResult.extracted)
         IN  [q EXCEPT !.state = state,
                       !.pc = IF state.step > NSteps THEN "as_genid" ELSE "as_save_next"]
    ELSE [q EXCEPT !.pc = "as_save_retry"]

\* getSpaceRegistrationState
GetRegistration(r, P) ==
    LET q == req[r] IN
    /\ q.pc = "as_get"
    /\ \E ok \in Outcomes(P, "reg_get") :
          LET c     == CaughtBy("reg_get")
              state == IF ok THEN reg[RegistrationKey(q.sid)] ELSE NoState
              q1    == IF ok THEN q ELSE Failed(P, q, "reg_get")
          IN  Step(P, r, IF ok \/ c = "getSpaceRegistrationState"
                      THEN IF state.exists THEN WithState(q1, state)
                           ELSE [q1 EXCEPT !.pc = "as_init"]
                      ELSE Caught(q1, c))
    /\ UNCHANGED <<chat, reg, spaces, probe>>

InitialRegistrationFromZero == [exists |-> TRUE, step |-> 0, data |-> EmptyData]

\* The state initializeSpaceRegistration builds.
InitialRegistration == [exists |-> TRUE, step |-> 1, data |-> EmptyData]

\* initializeSpaceRegistration
InitializeRegistration(r, P) ==
    LET q == req[r] IN
    /\ q.pc = "as_init"
    /\ \E ok \in Outcomes(P, "reg_put") :
          LET c  == CaughtBy("reg_put")
              q1 == IF ok THEN q ELSE Failed(P, q, "reg_put")
          IN  /\ reg' = IF ok THEN [reg EXCEPT ![RegistrationKey(q.sid)] = Persisted(InitialRegistration)]
                        ELSE reg
              /\ Step(P, r, IF ok \/ c = "saveSpaceRegistrationState"
                         THEN WithState(q1, InitialRegistration)
                         ELSE Caught(q1, c))
    /\ UNCHANGED <<chat, spaces, probe>>

\* extractSpaceDataFromMessage, and the branch taken on its result.
Extract(r, P) ==
    LET q == req[r] IN
    /\ q.pc = "as_extract"
    /\ \E g \in { o \in P.extracts[q.currentStep] : o.ok \/ "gw_extract" \in P.fail } :
          LET c  == CaughtBy("gw_extract")
              q1 == IF g.ok THEN q ELSE Failed(P, q, "gw_extract")
          IN  Step(P, r, IF g.ok \/ c = "extractSpaceDataFromMessage"
                      THEN Transition([q1 EXCEPT !.extractionResult =
                                                    extractSpaceDataFromMessage(g)])
                      ELSE Caught(q1, c))
    /\ UNCHANGED <<chat, reg, spaces, probe>>

\* The else branch at line 874: the advanced state is saved and the next
\* step prompted.
SaveAdvanced(r, P) ==
    LET q == req[r] IN
    /\ q.pc = "as_save_next"
    /\ \E ok \in Outcomes(P, "reg_put") :
          LET c  == CaughtBy("reg_put")
              q1 == IF ok THEN q ELSE Failed(P, q, "reg_put")
              nextStep == FindStep(q.state.step)
          IN  /\ reg' = IF ok THEN [reg EXCEPT ![RegistrationKey(q.sid)] = Persisted(q.state)] ELSE reg
              /\ Step(P, r, IF ok \/ c = "saveSpaceRegistrationState"
                         THEN [q1 EXCEPT
                                 !.pc = "a_get",
                                 !.reply = IF nextStep # 0
                                           THEN [NoReply EXCEPT
                                                   !.kind = "next",
                                                   !.field = SPACE_REGISTRATION_STEPS[q.currentStep].field_name,
                                                   !.next = SPACE_REGISTRATION_STEPS[nextStep].field_name]
                                           ELSE [NoReply EXCEPT !.kind = "add_space_error"]]
                         ELSE Caught(q1, c))
    /\ UNCHANGED <<chat, spaces, probe>>

\* The else branch at line 887: the state is saved as it is and the same
\* step asked again.
SaveRetry(r, P) ==
    LET q == req[r] IN
    /\ q.pc = "as_save_retry"
    /\ \E ok \in Outcomes(P, "reg_put") :
          LET c  == CaughtBy("reg_put")
              q1 == IF ok THEN q ELSE Failed(P, q, "reg_put")
          IN  /\ reg' = IF ok THEN [reg EXCEPT ![RegistrationKey(q.sid)] = Persisted(q.state)] ELSE reg
              /\ Step(P, r, IF ok \/ c = "saveSpaceRegistrationState"
                         THEN [q1 EXCEPT
                                 !.pc = "a_get",
                                 !.reply = [NoReply EXCEPT
                                              !.kind = "retry",
                                              !.field = SPACE_REGISTRATION_STEPS[q.currentStep].field_name]]
                         ELSE Caught(q1, c))
    /\ UNCHANGED <<chat, spaces, probe>>

(***************************************************************************)
(* Finalization                                                            *)
(***************************************************************************)
SetMax(S) == IF S = {} THEN 0 ELSE CHOOSE m \in S : \A x \in S : x <= m

generateSpaceIdFirstFree(listed, keys, now) ==
    IF listed THEN (CHOOSE n \in 1..(Cardinality(keys) + 1) : n \notin keys) ELSE 1000 + now

\* `space-${Date.now()}`: the clock read as milliseconds since the epoch,
\* far above every counted identifier.
EpochOffset == 1000

\* A generateSpaceId that adds the time of the scan to the counted identifier.
generateSpaceIdStamped(listed, keys, now) ==
    IF listed THEN SetMax(keys) + 1 + now ELSE EpochOffset + now

\* generateSpaceId: the largest numeric suffix among the keys listed under
\* "space-" plus one; the time when the listing fails.
generateSpaceId(listed, keys, now) ==
    IF listed THEN SetMax(keys) + 1 ELSE EpochOffset + now

\* completeSpaceData built from state.collected_data (lines 818-860)
completeSpaceData(spaceId, data) ==
    [space_id      |-> spaceId,
     name          |-> OrElse(ReadKey(data, "name"), EmptyStr),
     space_type    |-> OrElse(ReadKey(data, "space_type"), EmptyStr),
     address       |-> OrElse(ReadKey(data, "address"), EmptyStr),
     coordinate    |-> CoordZero,
     max_capacity  |-> OrElse(ReadKey(data, "max_capacity"), "num:0"),
     area_size     |-> OrElse(ReadKey(data, "area_size"), "num:0"),
     amenities     |-> OrElse(ReadKey(data, "amenities"), EmptyArr),
     fee_policy    |-> OrElse(ReadKey(data, "fee_policy"), EmptyStr),
     opening_hours |-> OrElse(ReadKey(data, "opening_hours"), ClosedHours),
     sensors       |-> [noise |-> FALSE, cctv |-> FALSE],
     booking_policy |-> [cancellation |-> FALSE, modification |-> TRUE,
                         reservation_required |-> FALSE, deposit_required |-> FALSE]]

\* generateSpaceId
GenerateId(r, P) ==
    LET q == req[r] IN
    /\ q.pc = "as_genid"
    /\ \E ok \in Outcomes(P, "ids_list") :
          LET c  == CaughtBy("ids_list")
              q1 == IF ok THEN q ELSE Failed(P, q, "ids_list")
          IN  Step(P, r, IF ok \/ c = "generateSpaceId"
                      THEN [q1 EXCEPT !.pc = "as_put_space",
                                      !.spaceId = generateSpaceId(ok, DOMAIN spaces, clock)]
                      ELSE Caught(q1, c))
    /\ UNCHANGED <<chat, reg, spaces, probe>>

\* env.KV.put(spaceId, JSON.stringify(completeSpaceData))
PutSpace(r, P) ==
    LET q == req[r] IN
    /\ q.pc = "as_put_space"
    /\ \E ok \in Outcomes(P, "space_put") :
          LET q1 == IF ok THEN q ELSE Failed(P, q, "space_put") IN
          /\ spaces' = IF ok
                       THEN (q.spaceId :> completeSpaceData(q.spaceId, q.state.data)) @@ spaces
                       ELSE spaces
          /\ Step(P, r, IF ok
                     THEN [q1 EXCEPT !.pc = "as_delete", !.wrote = IF P.track THEN @ \cup {q.spaceId} ELSE @]
                     ELSE Caught(q1, CaughtBy("space_put")))
    /\ UNCHANGED <<chat, reg, probe>>

\* env.KV.delete(`space_registration:${sessionId}`), and the completion reply
DeleteRegistration(r, P) ==
    LET q == req[r] IN
    /\ q.pc = "as_delete"
    /\ \E ok \in Outcomes(P, "reg_delete") :
          LET q1 == IF ok THEN q ELSE Failed(P, q, "reg_delete") IN
          /\ reg' = IF ok THEN [reg EXCEPT ![RegistrationKey(q.sid)] = NoState] ELSE reg
          /\ Step(P, r, IF ok
                     THEN [q1 EXCEPT !.pc = "a_get", !.is_completed = TRUE,
                                     !.reply = [NoReply EXCEPT !.kind = "complete",
                                                               !.space_id = q.spaceId]]
                     ELSE Caught(q1, CaughtBy("reg_delete")))
    /\ UNCHANGED <<chat, spaces, probe>>

(***************************************************************************)
(* handleSearchSpaceFlow                                                   *)
(***************************************************************************)
Keywords == {"incheon", "seoul", "busan", "audio", "mic", "projector", "indoor", "outdoor"}

\* The markers a stored value holds: as substrings of a string (address,
\* space_type), as substrings of some element of an array (amenities).
MarkersIn(v) ==
    CASE v = "str:Incheon"  -> {"incheon"}
      [] v = "str:Seoul"    -> {"seoul"}
      [] v = "str:indoor"   -> {"indoor"}
      [] v = "str:outdoor"  -> {"outdoor"}
      [] v = "arr:audio"    -> {"audio"}
      [] v = "arr:sound,mic" -> {"sound", "mic"}
      [] OTHER              -> {}

\* typeof, for the values modelled: what is not listed is a string.
TypeOf(v) ==
    CASE v \in {JNull, JUndef, Absent}                      -> "nullish"
      [] v \in {EmptyArr, "arr:audio", "arr:sound,mic"}      -> "array"
      [] v \in {"num:0", "num:10", "num:30"}                 -> "number"
      [] v \in {"bool:false", "bool:true"}                   -> "boolean"
      [] v \in {ClosedHours, CoordZero, "obj:hours"}         -> "object"
      [] OTHER                                               -> "string"

\* The rules of filterSpacesByMessage, in order: the keyword looked for in
\* the message, the field of the record and the markers looked for in it.
SearchRules ==
    << [keyword |-> "incheon",   field |-> "address",    markers |-> {"incheon"}],
       [keyword |-> "seoul",     field |-> "address",    markers |-> {"seoul"}],
       [keyword |-> "busan",     field |-> "address",    markers |-> {"busan"}],
       [keyword |-> "audio",     field |-> "amenities",  markers |-> {"sound", "audio"}],
       [keyword |-> "mic",       field |-> "amenities",  markers |-> {"mic"}],
       [keyword |-> "projector", field |-> "amenities",  markers |-> {"projector"}],
       [keyword |-> "indoor",    field |-> "space_type", markers |-> {"indoor"}],
       [keyword |-> "outdoor",   field |-> "space_type", markers |-> {"outdoor"}] >>

\* One rule on one record: message.includes(keyword) && field?.includes(..)
\* or field?.some(..).  The field is read only when the message has the
\* keyword; ?. stops at null and undefined; a value without the method
\* (includes on a string or an array, some on an array) throws a TypeError.
\* An array in the place of a string has no element equal to a marker.
RuleResult(rule, space, message) ==
    LET v == space[rule.field]
        hit == IF MarkersIn(v) \cap rule.markers # {} THEN "true" ELSE "false"
    IN  IF rule.keyword \notin message THEN "false"
        ELSE IF TypeOf(v) = "nullish" THEN "false"
        ELSE IF rule.field = "amenities"
        THEN (IF TypeOf(v) = "array" THEN hit ELSE "throw")
        ELSE IF TypeOf(v) = "string" THEN hit
        ELSE IF TypeOf(v) = "array" THEN "false"
        ELSE "throw"

\* The callback of spaces.filter on one record, from rule i on: true at the
\* first rule that holds, false after the last, an exception where a rule
\* throws.
RECURSIVE FilterFrom(_, _, _)
FilterFrom(i, space, message) ==
    IF i > Len(SearchRules) THEN "false"
    ELSE LET result == RuleResult(SearchRules[i], space, message)
         IN  IF result = "false" THEN FilterFrom(i + 1, space, message) ELSE result

\* filterSpacesByMessage keeps the record.
Matches(space, message) == FilterFrom(1, space, message) = "true"

\* filterSpacesByMessage throws on the record.
Throws(space, message) == FilterFrom(1, space, message) = "throw"

\* env.KV.list(): every key of the store
ListAll(r, P) ==
    LET q == req[r] IN
    /\ q.pc = "ss_list"
    /\ \E ok \in Outcomes(P, "all_list") :
          LET c  == CaughtBy("all_list")
              q1 == IF ok THEN q ELSE Failed(P, q, "all_list")
          IN  Step(P, r, IF ok
                      THEN [q1 EXCEPT !.pc = "ss_get",
                                      !.keys = [chat  |-> { s \in DOMAIN chat : chat[s].exists },
                                                reg   |-> { s \in DOMAIN reg : reg[s].exists },
                                                space |-> DOMAIN spaces]]
                      ELSE IF c = "getAllSpacesFromKV"
                      THEN [q1 EXCEPT !.pc = "ss_synth", !.data = {}, !.total_count = 0]
                      ELSE Caught(q1, c))
    /\ UNCHANGED <<chat, reg, spaces, probe>>

\* A stored conversation read as a KVSpaceData: the object has the keys
\* session_id, messages, last_updated and created_at, and every field of a
\* space reads as undefined.
ChatAsSpace(session) == NoSpace

\* A registration state that keeps the collected fields at its top level.
RegistrationAsSpaceFlat(state) ==
    [NoSpace EXCEPT !.address = state.data["address"],
                    !.amenities = state.data["amenities"],
                    !.space_type = state.data["space_type"]]

\* A stored registration state read as a KVSpaceData: the object has the
\* keys session_id, step, collected_data, required_fields and last_updated;
\* the collected fields are inside collected_data, and every field of a
\* space reads as undefined.
RegistrationAsSpace(state) == NoSpace

\* The reads of the listed keys, then (nothing awaited in between) the filter
\* and the conversion of handleSearchSpaceFlow, and the count.  Every listed
\* key is read, the conversations and the registration states too; an entry
\* deleted since the listing reads as null and is dropped.  The conversion
\* reads the fields of a record through ?. and ||: it throws on no record.
GetAll(r, P) ==
    LET q == req[r] IN
    /\ q.pc = "ss_get"
    /\ \E ok \in Outcomes(P, "all_get") :
          LET c  == CaughtBy("all_get")
              q1 == IF ok THEN q ELSE Failed(P, q, "all_get")
              spaceData == IF ok THEN q.keys.space \cap DOMAIN spaces ELSE {}
              chatData  == IF ok THEN { s \in q.keys.chat : chat[s].exists } ELSE {}
              regData   == IF ok THEN { s \in q.keys.reg : reg[s].exists } ELSE {}
              data == { k \in spaceData : Matches(spaces[k], q.message) }
              foreign ==
                  { <<"chat_session", s>> :
                       s \in { t \in chatData : Matches(ChatAsSpace(chat[t]), q.message) } }
                  \cup
                  { <<"space_registration", s>> :
                       s \in { t \in regData : Matches(RegistrationAsSpace(reg[t]), q.message) } }
              thrown ==
                  \/ \E k \in spaceData : Throws(spaces[k], q.message)
                  \/ \E s \in chatData : Throws(ChatAsSpace(chat[s]), q.message)
                  \/ \E s \in regData : Throws(RegistrationAsSpace(reg[s]), q.message)
          IN  Step(P, r, IF ok \/ c = "getAllSpacesFromKV"
                      THEN IF thrown
                           THEN Caught(Failed(P, q1, "search_map"), CaughtBy("search_map"))
                           ELSE [q1 EXCEPT !.pc = "ss_synth", !.data = data,
                                           !.foreign = foreign,
                                           !.total_count = Cardinality(data) +
                                                           Cardinality(foreign)]
                      ELSE Caught(q1, c))
    /\ UNCHANGED <<chat, reg, spaces, probe>>

\* The decimal digits of n, as in the key `space-${n}`.
RECURSIVE Digits(_)
Digits(n) == IF n < 10 THEN <<n>> ELSE Append(Digits(n \div 10), n % 10)

\* The key space-a is listed before the key space-b: env.KV.list() returns
\* the keys in lexicographic order.
KeyBefore(a, b) ==
    LET s == Digits(a)
        t == Digits(b)
    IN  \E i \in 1..(Len(s) + 1) :
           /\ \A j \in 1..(i - 1) : j <= Len(t) /\ s[j] = t[j]
           /\ \/ i = Len(s) + 1 /\ Len(t) > Len(s)
              \/ i <= Len(s) /\ i <= Len(t) /\ s[i] < t[i]

SmallestNumber(data) == CHOOSE k \in data : \A j \in data : k <= j

\* searchResult.data[0]: the first of the records kept, in listing order.
FirstListed(data) == CHOOSE k \in data : \A j \in data \ {k} : KeyBefore(k, j)

\* The fixed part of the text of a reply, by the template that made it; the
\* text of the gateway has no fixed part.
FixedText(kind) ==
    CASE kind = "search_found"       -> "N spaces found, the first recommended is NAME, ask for more"
      [] kind = "search_none"        -> "sorry, no space matches, search again with other conditions"
      [] kind = "search_catch"       -> "sorry, an error occurred during the search, try again"
      [] kind = "add_space_fallback" -> "thank you for registering, tell me the name and address"
      [] kind = "profile_fallback"   -> "I will help you create a profile, tell me the name to use"
      [] kind = "greeting"           -> "hello, how can I help"
      [] OTHER                       -> ""

\* generateSearchResultResponse
SynthesizeSearch(r, P) ==
    LET q == req[r] IN
    /\ q.pc = "ss_synth"
    /\ \E ok \in Outcomes(P, "gw_search") :
          LET c  == CaughtBy("gw_search")
              q1 == IF ok THEN q ELSE Failed(P, q, "gw_search")
          IN  Step(P, r, IF ok
                      THEN [q1 EXCEPT !.pc = "a_get", !.reply = [NoReply EXCEPT !.kind = "llm"]]
                      ELSE IF c = "generateSearchResultResponse"
                      THEN [q1 EXCEPT !.pc = "a_get",
                                      !.reply = IF q.data # {}
                                                THEN [NoReply EXCEPT !.kind = "search_found",
                                                                     !.count = Cardinality(q.data),
                                                                     !.first = FirstListed(q.data)]
                                                ELSE [NoReply EXCEPT !.kind = "search_none"]]
                      ELSE Caught(q1, c))
    /\ UNCHANGED <<chat, reg, spaces, probe>>

(***************************************************************************)
(* generateIntentResponse (the else branch: CREATE_USER_PROFILE)           *)
(***************************************************************************)
FallbackReply(intentType) ==
    CASE intentType = "ADD_SPACE"           -> "add_space_fallback"
      [] intentType = "CREATE_USER_PROFILE" -> "profile_fallback"
      [] OTHER                              -> "greeting"

GenerateIntentResponse(r, P) ==
    LET q == req[r] IN
    /\ q.pc = "gi_gen"
    /\ \E ok \in Outcomes(P, "gw_generic") :
          LET c  == CaughtBy("gw_generic")
              q1 == IF ok THEN q ELSE Failed(P, q, "gw_generic")
          IN  Step(P, r, IF ok
                      THEN [q1 EXCEPT !.pc = "a_get",
                                      !.reply = [NoReply EXCEPT
                                                   !.kind = IF q.intentType \in {"ADD_SPACE", "CREATE_USER_PROFILE"}
                                                            THEN "llm" ELSE "greeting"]]
                      ELSE IF c = "generateIntentResponse"
                      THEN [q1 EXCEPT !.pc = "a_get",
                                      !.reply = [NoReply EXCEPT !.kind = FallbackReply(q.intentType)]]
                      ELSE Caught(q1, c))
    /\ UNCHANGED <<chat, reg, spaces, probe>>

(***************************************************************************)
(* The request body and validateIntentAnalysisRequest                      *)
(***************************************************************************)
\* A string of white space.
Blank == "str: "

\* text.trim()
TrimString(v) == IF v = Blank THEN EmptyStr ELSE v

\* The body request.json() returns: null, or an object whose message and
\* session_id are any JSON values or missing; json "invalid" is a body that
\* is no JSON, on which request.json() throws.
Body(json, message, session_id) ==
    [json |-> json, message |-> message, session_id |-> session_id]

validateAcceptsBlank(requestBody) ==
    IF requestBody.json = "null" THEN "Request body is required"
    ELSE IF Falsy(requestBody.message) \/ TypeOf(requestBody.message) # "string"
    THEN "Message is required and must be a string"
    ELSE IF Falsy(requestBody.session_id) \/ TypeOf(requestBody.session_id) # "string"
    THEN "Session ID is required and must be a string"
    ELSE JNull

\* validateIntentAnalysisRequest: the error message, or null.
validateIntentAnalysisRequest(requestBody) ==
    IF requestBody.json = "null" THEN "Request body is required"
    ELSE IF Falsy(requestBody.message) \/ TypeOf(requestBody.message) # "string"
    THEN "Message is required and must be a string"
    ELSE IF TrimString(requestBody.message) = EmptyStr
    THEN "Message cannot be empty"
    ELSE IF Falsy(requestBody.session_id) \/ TypeOf(requestBody.session_id) # "string"
    THEN "Session ID is required and must be a string"
    ELSE JNull

\* The session a session_id string names.
SessionOf(v) == CASE v = "str:A" -> "A" [] v = Blank -> " " [] OTHER -> "-"

\* The recognised keywords a message string includes.
KeywordsOf(v) == CASE v = "str:Incheon" -> {"incheon"} [] OTHER -> {}

\* handleIntentAnalysisRequest from the body on (lines 593-609): the body is
\* parsed and validated; a body that is refused is answered at once, an
\* accepted one stamps the user turn as in Receive.
HandleRequest(r, P) ==
    /\ req[r].pc \in {"idle", "done"}
    /\ clock < P.maxClock
    /\ \E requestBody \in P.bodies :
          LET validationError == validateIntentAnalysisRequest(requestBody)
              sid == SessionOf(requestBody.session_id)
              refused == [IdleRequest EXCEPT !.body = requestBody]
          IN  IF requestBody.json = "invalid"
              THEN /\ req' = [req EXCEPT ![r] = RequestCatch(refused)]
                   /\ clock' = clock
              ELSE IF validationError # JNull
              THEN /\ req' = [req EXCEPT ![r] =
                                [refused EXCEPT !.pc = "done", !.status = "FAILURE",
                                                !.error = validationError]]
                   /\ clock' = clock
              ELSE /\ req' = [req EXCEPT ![r] =
                                [IdleRequest EXCEPT
                                    !.pc = "u_get", !.sid = sid,
                                    !.message = KeywordsOf(requestBody.message),
                                    !.ts = clock, !.body = requestBody,
                                    !.before = [reg |-> reg[sid], spaces |-> spaces,
                                                chat |-> chat[sid]]]]
                   /\ clock' = clock + 1
    /\ UNCHANGED <<chat, reg, spaces, probe>>

(***************************************************************************)
(* Pure functions applied to an input (the classifier on a gateway         *)
(* outcome).                                                               *)
(***************************************************************************)
NoProbe == [fn |-> "none", input |-> [ok |-> FALSE, shape |-> "-", text |-> << >>],
            applied |-> FALSE, output |-> "NONE", legacy |-> "NONE"]

ApplyClassifier ==
    /\ probe.fn = "classify"
    /\ ~probe.applied
    /\ probe' = [probe EXCEPT !.applied = TRUE,
                              !.output = analyzeIntentWithLLM(probe.input),
                              !.legacy = analyzeIntentWorkersAI(probe.input)]
    /\ UNCHANGED <<chat, reg, spaces, clock, req>>

(***************************************************************************)
(* Profiles: the inputs and the failures a specification draws from.       *)
(***************************************************************************)
Texts(n) == UNION { [1..k -> Words] : k \in 0..n }

GatewayText(text) == [ok |-> TRUE, shape |-> "string", text |-> text]

GatewayDown == [ok |-> FALSE, shape |-> "-", text |-> << >>]

\* One reply per intent, one naming no label, and the gateway failing.
FewReplies ==
    { GatewayText(<<"ADD_SPACE">>), GatewayText(<<"search_space">>),
      GatewayText(<<"CREATE_USER_PROFILE">>), GatewayText(<<"hello">>), GatewayDown }

Json(is_valid, value) ==
    [ok |-> TRUE, parsed |-> TRUE, is_valid |-> is_valid, extracted_value |-> value]

ExtractDown == [ok |-> FALSE, parsed |-> FALSE, is_valid |-> JUndef, extracted_value |-> JUndef]

Unparseable == [ok |-> TRUE, parsed |-> FALSE, is_valid |-> JUndef, extracted_value |-> JUndef]

\* A well-typed value for the field of each step.
Typical(i) ==
    CASE i = 1 -> "str:Studio A"
      [] i = 2 -> "str:Incheon"
      [] i = 3 -> "str:indoor"
      [] i = 4 -> "num:10"
      [] i = 5 -> "num:30"
      [] i = 6 -> "arr:audio"
      [] i = 7 -> "str:free"
      [] OTHER -> "obj:hours"

\* The registration state after the first n steps were answered with the
\* typical values, one request at a time.
Collected(n) ==
    [exists |-> TRUE, step |-> n + 1,
     data |-> [f \in FieldNames |->
                 IF \E i \in 1..n : SPACE_REGISTRATION_STEPS[i].field_name = f
                 THEN Typical(CHOOSE i \in 1..n : SPACE_REGISTRATION_STEPS[i].field_name = f)
                 ELSE Absent]]

\* The history after n turns, one request at a time, stamped 0 .. n-1.
History(n) ==
    [exists |-> n > 0,
     messages |-> [i \in 1..n |->
                     IF i % 2 = 1
                     THEN [role |-> "user", timestamp |-> i - 1,
                           content |-> UserText, intent_type |-> "undefined"]
                     ELSE [role |-> "assistant", timestamp |-> i - 1,
                           content |-> [NoReply EXCEPT !.kind = "generic"],
                           intent_type |-> "CREATE_USER_PROFILE"]]]

InitOf(P) ==
    /\ chat \in [P.sessions -> P.chats]
    /\ reg \in [P.sessions -> P.regs]
    /\ spaces \in P.stored
    /\ clock = P.clock
    /\ req = [r \in P.slots |-> IdleRequest]
    /\ probe = NoProbe

(***************************************************************************)
(* Spec: one session whose requests are handled one at a time; the gateway *)
(* may fail, the store does not.                                           *)
(***************************************************************************)
MaxClock == 20

\* The values the gateway extracts with is_valid true, per step: the typical
\* one, and at three steps one that is empty, of another type or missing.
SeqValues(i) ==
    CASE i = 1 -> {Typical(1), "bool:false", JUndef}
      [] i = 4 -> {Typical(4), EmptyStr}
      [] i = 8 -> {Typical(8), JUndef}
      [] OTHER -> {Typical(i)}

SeqExtracts(i) ==
    { ExtractDown, Unparseable, Json("bool:false", Typical(i)), Json("bool:true", JNull) }
        \cup { Json("bool:true", v) : v \in SeqValues(i) }

SeqP ==
    [slots    |-> {1},
     sessions |-> {"A"},
     messages |-> {{}},
     clock    |-> 0,
     maxClock |-> MaxClock,
     chats    |-> {NoSession},
     regs     |-> {NoState},
     stored   |-> {NoSpaces},
     track    |-> TRUE,
     content  |-> FALSE,
     saturate |-> FALSE,
     fail     |-> {"gw_intent", "gw_extract", "gw_search", "gw_generic"},
     replies  |-> FewReplies,
     extracts |-> [i \in 1..NSteps |-> SeqExtracts(i)]]

Init == InitOf(SeqP)

Next ==
    \E r \in SeqP.slots :
        \/ Receive(r, SeqP)
        \/ AddMessageGet(r, SeqP)
        \/ AddMessagePut(r, SeqP)
        \/ GetContext(r, SeqP)
        \/ Classify(r, SeqP)
        \/ GetRegistration(r, SeqP)
        \/ InitializeRegistration(r, SeqP)
        \/ Extract(r, SeqP)
        \/ SaveAdvanced(r, SeqP)
        \/ SaveRetry(r, SeqP)
        \/ GenerateId(r, SeqP)
        \/ PutSpace(r, SeqP)
        \/ DeleteRegistration(r, SeqP)
        \/ ListAll(r, SeqP)
        \/ GetAll(r, SeqP)
        \/ SynthesizeSearch(r, SeqP)
        \/ GenerateIntentResponse(r, SeqP)

Spec == Init /\ [][Next]_vars

(***************************************************************************)
(* SpecFail: one session whose requests are handled one at a time, every   *)
(* store and gateway call may fail.  The session has registered nothing,   *)
(* one field or seven.                                                     *)
(***************************************************************************)
FailClock == 3

FewExtracts(i) ==
    { ExtractDown, Unparseable, Json("bool:false", Typical(i)),
      Json("bool:true", Typical(i)), Json("bool:true", JUndef) }

FailP ==
    [slots    |-> {1},
     sessions |-> {"A"},
     messages |-> {{}},
     clock    |-> 0,
     maxClock |-> FailClock,
     chats    |-> {NoSession},
     regs     |-> {NoState, Collected(1), Collected(NSteps - 1)},
     stored   |-> {NoSpaces},
     track    |-> TRUE,
     content  |-> TRUE,
     saturate |-> FALSE,
     fail     |-> Sites,
     replies  |-> FewReplies,
     extracts |-> [i \in 1..NSteps |-> FewExtracts(i)]]

InitFail == InitOf(FailP)

NextFail ==
    \E r \in FailP.slots :
        \/ Receive(r, FailP)
        \/ AddMessageGet(r, FailP)
        \/ AddMessagePut(r, FailP)
        \/ GetContext(r, FailP)
        \/ Classify(r, FailP)
        \/ GetRegistration(r, FailP)
        \/ InitializeRegistration(r, FailP)
        \/ Extract(r, FailP)
        \/ SaveAdvanced(r, FailP)
        \/ SaveRetry(r, FailP)
        \/ GenerateId(r, FailP)
        \/ PutSpace(r, FailP)
        \/ DeleteRegistration(r, FailP)
        \/ ListAll(r, FailP)
        \/ GetAll(r, FailP)
        \/ SynthesizeSearch(r, FailP)
        \/ GenerateIntentResponse(r, FailP)

SpecFail == InitFail /\ [][NextFail]_vars

(***************************************************************************)
(* SpecConc: requests of one session classified ADD_SPACE, two in flight   *)
(* at once; every store and gateway call of handleAddSpaceFlow may fail.   *)
(* The session has registered nothing, six fields or seven.                *)
(***************************************************************************)
ConcClock == 3

ConcP ==
    [slots    |-> {1, 2},
     sessions |-> {"A"},
     messages |-> {{}},
     clock    |-> 0,
     maxClock |-> ConcClock,
     chats    |-> {NoSession},
     regs     |-> {NoState, Collected(NSteps - 2), Collected(NSteps - 1)},
     stored   |-> {NoSpaces},
     track    |-> FALSE,
     content  |-> FALSE,
     saturate |-> FALSE,
     fail     |-> {"reg_get", "reg_put", "gw_extract", "ids_list", "space_put", "reg_delete"},
     replies  |-> {GatewayText(<<"ADD_SPACE">>)},
     extracts |-> [i \in 1..NSteps |->
                     { Json("bool:false", Typical(i)), Json("bool:true", Typical(i)) }]]

InitConc == InitOf(ConcP)

NextConc ==
    \E r \in ConcP.slots :
        \/ Receive(r, ConcP)
        \/ AddMessageGet(r, ConcP)
        \/ AddMessagePut(r, ConcP)
        \/ GetContext(r, ConcP)
        \/ Classify(r, ConcP)
        \/ GetRegistration(r, ConcP)
        \/ InitializeRegistration(r, ConcP)
        \/ Extract(r, ConcP)
        \/ SaveAdvanced(r, ConcP)
        \/ SaveRetry(r, ConcP)
        \/ GenerateId(r, ConcP)
        \/ PutSpace(r, ConcP)
        \/ DeleteRegistration(r, ConcP)

SpecConc == InitConc /\ [][NextConc]_vars

(***************************************************************************)
(* SpecChat: requests of one session classified CREATE_USER_PROFILE, two   *)
(* in flight at once, on a session that is new or one turn short of the    *)
(* cap; the reads and writes of the session may fail.                      *)
(***************************************************************************)
ChatTurns == 19

ChatRequests == 2

ChatP ==
    [slots    |-> {1, 2},
     sessions |-> {"A"},
     messages |-> {{}},
     clock    |-> ChatTurns,
     maxClock |-> ChatTurns + ChatRequests,
     chats    |-> {NoSession, History(ChatTurns)},
     regs     |-> {NoState},
     stored   |-> {NoSpaces},
     track    |-> TRUE,
     content  |-> TRUE,
     saturate |-> FALSE,
     fail     |-> {"chat_get", "chat_put", "ctx_get"},
     replies  |-> {GatewayText(<<"CREATE_USER_PROFILE">>)},
     extracts |-> [i \in 1..NSteps |-> {}]]

InitChat == InitOf(ChatP)

NextChat ==
    \E r \in ChatP.slots :
        \/ Receive(r, ChatP)
        \/ AddMessageGet(r, ChatP)
        \/ AddMessagePut(r, ChatP)
        \/ GetContext(r, ChatP)
        \/ Classify(r, ChatP)
        \/ GenerateIntentResponse(r, ChatP)

SpecChat == InitChat /\ [][NextChat]_vars

(***************************************************************************)
(* SpecStore: one session whose requests are handled one at a time, on a   *)
(* store that already holds SpaceRecords written by earlier finalizations: *)
(* none, one, two, and one or two next to one that got a time-based         *)
(* identifier and an amenities value that is a string.  The session has registered    *)
(* nothing or seven fields.  The calls of the search, of the synthesizers   *)
(* and of the finalization may fail.                                       *)
(***************************************************************************)
StoreTicks == 3

\* The record a finalization writes for the typical answers, with the given
\* address, space type and amenities.
StoredRecord(id, address, space_type, amenities) ==
    completeSpaceData(id, [Collected(NSteps).data EXCEPT
                             !.address = address, !.space_type = space_type,
                             !.amenities = amenities])

Stores ==
    LET first  == 1 :> StoredRecord(1, "str:Incheon", "str:indoor", "arr:audio")
        second == 2 :> StoredRecord(2, "str:Seoul", "str:outdoor", "arr:sound,mic")
        timed  == EpochOffset :> StoredRecord(EpochOffset, "str:Seoul", "str:indoor", "str:audio")
    IN  { NoSpaces, first, first @@ second, first @@ timed, first @@ second @@ timed }

StoreMessages == { {}, {"incheon"}, {"seoul"}, {"seoul", "audio"}, {"audio"}, {"mic"}, {"outdoor"} }

StoreP ==
    [slots    |-> {1},
     sessions |-> {"A"},
     messages |-> StoreMessages,
     clock    |-> 1,
     maxClock |-> 1 + StoreTicks,
     chats    |-> {NoSession},
     regs     |-> {NoState, Collected(NSteps - 1)},
     stored   |-> Stores,
     track    |-> TRUE,
     content  |-> TRUE,
     saturate |-> FALSE,
     fail     |-> {"ids_list", "reg_delete", "all_list", "all_get", "gw_search", "gw_generic"},
     replies  |-> FewReplies,
     extracts |-> [i \in 1..NSteps |->
                     { Json("bool:false", Typical(i)), Json("bool:true", Typical(i)) }]]

InitStore == InitOf(StoreP)

NextStore ==
    \E r \in StoreP.slots :
        \/ Receive(r, StoreP)
        \/ AddMessageGet(r, StoreP)
        \/ AddMessagePut(r, StoreP)
        \/ GetContext(r, StoreP)
        \/ Classify(r, StoreP)
        \/ GetRegistration(r, StoreP)
        \/ InitializeRegistration(r, StoreP)
        \/ Extract(r, StoreP)
        \/ SaveAdvanced(r, StoreP)
        \/ SaveRetry(r, StoreP)
        \/ GenerateId(r, StoreP)
        \/ PutSpace(r, StoreP)
        \/ DeleteRegistration(r, StoreP)
        \/ ListAll(r, StoreP)
        \/ GetAll(r, StoreP)
        \/ SynthesizeSearch(r, StoreP)
        \/ GenerateIntentResponse(r, StoreP)

SpecStore == InitStore /\ [][NextStore]_vars

(***************************************************************************)
(* SpecRace: requests of one session classified ADD_SPACE, two in flight   *)
(* at once, with the history of each request kept.  The session has        *)
(* registered nothing or one field; the gateway extracts one of two valid  *)
(* values or none; no call fails.                                          *)
(***************************************************************************)
RaceTicks == 2

\* Another well-typed value for the field of each step.
Alternative(i) ==
    CASE i = 1 -> "str:Studio B"
      [] i = 2 -> "str:Seoul"
      [] i = 3 -> "str:outdoor"
      [] i = 4 -> "num:30"
      [] i = 5 -> "num:10"
      [] i = 6 -> "arr:sound,mic"
      [] i = 7 -> "str:paid"
      [] OTHER -> ClosedHours

RaceP ==
    [slots    |-> {1, 2},
     sessions |-> {"A"},
     messages |-> {{}},
     clock    |-> 0,
     maxClock |-> RaceTicks,
     chats    |-> {NoSession},
     regs     |-> {NoState, Collected(1)},
     stored   |-> {NoSpaces},
     track    |-> TRUE,
     content  |-> TRUE,
     saturate |-> FALSE,
     fail     |-> {},
     replies  |-> {GatewayText(<<"ADD_SPACE">>)},
     extracts |-> [i \in 1..NSteps |->
                     { Json("bool:false", Typical(i)), Json("bool:true", Typical(i)),
                       Json("bool:true", Alternative(i)) }]]

InitRace == InitOf(RaceP)

NextRace ==
    \E r \in RaceP.slots :
        \/ Receive(r, RaceP)
        \/ AddMessageGet(r, RaceP)
        \/ AddMessagePut(r, RaceP)
        \/ GetContext(r, RaceP)
        \/ Classify(r, RaceP)
        \/ GetRegistration(r, RaceP)
        \/ InitializeRegistration(r, RaceP)
        \/ Extract(r, RaceP)
        \/ SaveAdvanced(r, RaceP)
        \/ SaveRetry(r, RaceP)

SpecRace == InitRace /\ [][NextRace]_vars

(***************************************************************************)
(* SpecIds: two sessions that have each registered seven fields, their     *)
(* requests classified ADD_SPACE and in flight at once, on a store with no *)
(* record or one.  The gateway extracts nothing or one of two valid        *)
(* opening hours; the key scan of generateSpaceId may fail.                *)
(***************************************************************************)
IdTicks == 2

IdsP ==
    [slots    |-> {1, 2},
     sessions |-> {"A", "B"},
     messages |-> {{}},
     clock    |-> 0,
     maxClock |-> IdTicks,
     chats    |-> {NoSession},
     regs     |-> {Collected(NSteps - 1)},
     stored   |-> {NoSpaces, 1 :> StoredRecord(1, "str:Incheon", "str:indoor", "arr:audio")},
     track    |-> TRUE,
     content  |-> TRUE,
     saturate |-> FALSE,
     fail     |-> {"ids_list"},
     replies  |-> {GatewayText(<<"ADD_SPACE">>)},
     extracts |-> [i \in 1..NSteps |->
                     { Json("bool:false", Typical(i)), Json("bool:true", Typical(i)),
                       Json("bool:true", Alternative(i)) }]]

InitIds == InitOf(IdsP)

NextIds ==
    \E r \in IdsP.slots :
        \/ Receive(r, IdsP)
        \/ AddMessageGet(r, IdsP)
        \/ AddMessagePut(r, IdsP)
        \/ GetContext(r, IdsP)
        \/ Classify(r, IdsP)
        \/ GetRegistration(r, IdsP)
        \/ InitializeRegistration(r, IdsP)
        \/ Extract(r, IdsP)
        \/ SaveAdvanced(r, IdsP)
        \/ SaveRetry(r, IdsP)
        \/ GenerateId(r, IdsP)
        \/ PutSpace(r, IdsP)
        \/ DeleteRegistration(r, IdsP)

SpecIds == InitIds /\ [][NextIds]_vars

(***************************************************************************)
(* SpecStray: one session whose requests are handled one at a time and     *)
(* classified ADD_SPACE, on a store that holds a RegistrationState whose   *)
(* step has no catalogue entry (0, or N+1 with every field collected), or  *)
(* one at step 2.  The read of the state may fail.                         *)
(***************************************************************************)
StrayTicks == 3

Stray(step, n) == [Collected(n) EXCEPT !.step = step]

StrayP ==
    [slots    |-> {1},
     sessions |-> {"A"},
     messages |-> {{}},
     clock    |-> 0,
     maxClock |-> StrayTicks,
     chats    |-> {NoSession},
     regs     |-> {Stray(0, 0), Stray(NSteps + 1, NSteps), Collected(1)},
     stored   |-> {NoSpaces, 1 :> StoredRecord(1, "str:Incheon", "str:indoor", "arr:audio")},
     track    |-> TRUE,
     content  |-> TRUE,
     saturate |-> FALSE,
     fail     |-> {"reg_get"},
     replies  |-> {GatewayText(<<"ADD_SPACE">>)},
     extracts |-> [i \in 1..NSteps |->
                     { Json("bool:false", Typical(i)), Json("bool:true", Typical(i)) }]]

InitStray == InitOf(StrayP)

NextStray ==
    \E r \in StrayP.slots :
        \/ Receive(r, StrayP)
        \/ AddMessageGet(r, StrayP)
        \/ AddMessagePut(r, StrayP)
        \/ GetContext(r, StrayP)
        \/ Classify(r, StrayP)
        \/ GetRegistration(r, StrayP)
        \/ InitializeRegistration(r, StrayP)
        \/ Extract(r, StrayP)
        \/ SaveAdvanced(r, StrayP)
        \/ SaveRetry(r, StrayP)

SpecStray == InitStray /\ [][NextStray]_vars

(***************************************************************************)
(* SpecLive: one session, new, whose requests are handled one at a time    *)
(* for as long as no record is stored, with no store call failing.  The    *)
(* classifier answers ADD_SPACE or CREATE_USER_PROFILE, or fails, which    *)
(* makes the request a search; the extraction is valid with the typical    *)
(* value, invalid, or fails.  The runtime runs every awaited call to its   *)
(* end (weak fairness of the steps); requests classified ADD_SPACE and     *)
(* valid extractions keep occurring (strong fairness of the two).          *)
(***************************************************************************)
LiveClock == 2

LiveP ==
    [slots    |-> {1},
     sessions |-> {"A"},
     messages |-> {{}},
     clock    |-> 0,
     maxClock |-> LiveClock,
     chats    |-> {NoSession},
     regs     |-> {NoState},
     stored   |-> {NoSpaces},
     track    |-> TRUE,
     content  |-> FALSE,
     saturate |-> TRUE,
     fail     |-> {"gw_intent", "gw_extract"},
     replies  |-> {GatewayText(<<"ADD_SPACE">>), GatewayText(<<"CREATE_USER_PROFILE">>),
                   GatewayDown},
     extracts |-> [i \in 1..NSteps |->
                     { ExtractDown, Json("bool:false", Typical(i)),
                       Json("bool:true", Typical(i)) }]]

InitLive == InitOf(LiveP)

\* The classifier answers ADD_SPACE.
ClassifiedAddSpace ==
    \E r \in LiveP.slots : Classify(r, LiveP) /\ req'[r].intentType = "ADD_SPACE"

\* The extraction is valid, with a value that is not empty.
ExtractedValid ==
    \E r \in LiveP.slots :
        /\ Extract(r, LiveP)
        /\ Truthy(req'[r].extractionResult.isValid)
        /\ ~Falsy(req'[r].extractionResult.extracted)

NextLive ==
    \E r \in LiveP.slots :
        \/ spaces = NoSpaces /\ Receive(r, LiveP)
        \/ AddMessageGet(r, LiveP)
        \/ AddMessagePut(r, LiveP)
        \/ GetContext(r, LiveP)
        \/ Classify(r, LiveP)
        \/ GetRegistration(r, LiveP)
        \/ InitializeRegistration(r, LiveP)
        \/ Extract(r, LiveP)
        \/ SaveAdvanced(r, LiveP)
        \/ SaveRetry(r, LiveP)
        \/ GenerateId(r, LiveP)
        \/ PutSpace(r, LiveP)
        \/ DeleteRegistration(r, LiveP)
        \/ ListAll(r, LiveP)
        \/ GetAll(r, LiveP)
        \/ SynthesizeSearch(r, LiveP)
        \/ GenerateIntentResponse(r, LiveP)

SpecLive ==
    /\ InitLive /\ [][NextLive]_vars
    /\ WF_vars(NextLive)
    /\ SF_vars(ClassifiedAddSpace)
    /\ SF_vars(ExtractedValid)

(***************************************************************************)
(* SpecIsolate: two sessions that have each registered seven fields, two   *)
(* requests in flight at once, of one session or of both, under each of    *)
(* the three classifications, the extraction valid or not; every store     *)
(* call may fail.                                                          *)
(***************************************************************************)
IsolateTicks == 2

IsolateP ==
    [slots    |-> {1, 2},
     sessions |-> {"A", "B"},
     messages |-> {{"incheon"}},
     clock    |-> 0,
     maxClock |-> IsolateTicks,
     chats    |-> {NoSession},
     regs     |-> {Collected(NSteps - 1)},
     stored   |-> {1 :> StoredRecord(1, "str:Incheon", "str:indoor", "arr:audio")},
     track    |-> FALSE,
     content  |-> FALSE,
     saturate |-> FALSE,
     fail     |-> { "chat_get", "chat_put", "ctx_get", "reg_get", "reg_put", "ids_list",
                    "space_put", "reg_delete", "all_list", "all_get" },
     replies  |-> {GatewayText(<<"ADD_SPACE">>), GatewayText(<<"search_space">>),
                   GatewayText(<<"CREATE_USER_PROFILE">>)},
     extracts |-> [i \in 1..NSteps |->
                     { Json("bool:false", Typical(i)), Json("bool:true", Typical(i)) }]]

InitIsolate == InitOf(IsolateP)

NextIsolate ==
    \E r \in IsolateP.slots :
        \/ Receive(r, IsolateP)
        \/ AddMessageGet(r, IsolateP)
        \/ AddMessagePut(r, IsolateP)
        \/ GetContext(r, IsolateP)
        \/ Classify(r, IsolateP)
        \/ GetRegistration(r, IsolateP)
        \/ InitializeRegistration(r, IsolateP)
        \/ Extract(r, IsolateP)
        \/ SaveAdvanced(r, IsolateP)
        \/ SaveRetry(r, IsolateP)
        \/ GenerateId(r, IsolateP)
        \/ PutSpace(r, IsolateP)
        \/ DeleteRegistration(r, IsolateP)
        \/ ListAll(r, IsolateP)
        \/ GetAll(r, IsolateP)
        \/ SynthesizeSearch(r, IsolateP)
        \/ GenerateIntentResponse(r, IsolateP)

SpecIsolate == InitIsolate /\ [][NextIsolate]_vars

(***************************************************************************)
(* SpecValidate: requests handled one at a time from the body on.  The     *)
(* body is no JSON, null, or an object whose message and session_id are    *)
(* each missing, null, a number, empty, blank or a proper string.  The     *)
(* accepted requests are classified CREATE_USER_PROFILE.                   *)
(***************************************************************************)
ValidateTicks == 3

FieldValues == {JUndef, JNull, "num:10", EmptyStr, Blank}

Bodies ==
    { Body("invalid", JUndef, JUndef), Body("null", JUndef, JUndef) }
        \cup { Body("object", m, s) : m \in FieldValues \cup {"str:Incheon"},
                                      s \in FieldValues \cup {"str:A"} }

ValidateP ==
    [slots    |-> {1},
     sessions |-> {"A", " "},
     messages |-> {{}},
     bodies   |-> Bodies,
     clock    |-> 0,
     maxClock |-> ValidateTicks,
     chats    |-> {NoSession},
     regs     |-> {NoState},
     stored   |-> {NoSpaces},
     track    |-> TRUE,
     content  |-> TRUE,
     saturate |-> FALSE,
     fail     |-> {"chat_get", "chat_put", "gw_generic"},
     replies  |-> {GatewayText(<<"CREATE_USER_PROFILE">>)},
     extracts |-> [i \in 1..NSteps |-> {}]]

InitValidate == InitOf(ValidateP)

NextValidate ==
    \E r \in ValidateP.slots :
        \/ HandleRequest(r, ValidateP)
        \/ AddMessageGet(r, ValidateP)
        \/ AddMessagePut(r, ValidateP)
        \/ GetContext(r, ValidateP)
        \/ Classify(r, ValidateP)
        \/ GenerateIntentResponse(r, ValidateP)

SpecValidate == InitValidate /\ [][NextValidate]_vars

(***************************************************************************)
(* SpecClassify: the classifier applied to every outcome of the gateway:   *)
(* a failure, or a reply of up to MaxWords words in one of the shapes a    *)
(* response takes.                                                         *)
(***************************************************************************)
MaxWords == 3

Shapes == {"string", "object", "bad_object", "other"}

InitClassify ==
    /\ chat = [s \in {"A"} |-> NoSession]
    /\ reg = [s \in {"A"} |-> NoState]
    /\ spaces = NoSpaces
    /\ clock = 0
    /\ req = [r \in {1} |-> IdleRequest]
    /\ probe \in { [NoProbe EXCEPT !.fn = "classify", !.input = g] :
                     g \in {GatewayDown} \cup
                           { [ok |-> TRUE, shape |-> sh, text |-> t] :
                               sh \in Shapes, t \in Texts(MaxWords) } }

NextClassify == ApplyClassifier

SpecClassify == InitClassify /\ [][NextClassify]_vars

(***************************************************************************)
(* Properties                                                              *)
(***************************************************************************)
Slots == DOMAIN req

\* The state initializeSpaceRegistration gives a session that has none.
FirstStep == [exists |-> TRUE, step |-> 1, data |-> EmptyData]

\* The registration state a request started from: the stored one, or the
\* first step for a session that had none.
Found(q) == IF q.before.reg.exists THEN q.before.reg ELSE FirstStep

\* The field names of the catalogue steps 1 .. n.
FieldsUpTo(n) == { SPACE_REGISTRATION_STEPS[i].field_name : i \in 1..n }

\* The n most recent turns of a history.
MostRecent(h, n) ==
    [i \in 1..(IF Len(h) < n THEN Len(h) ELSE n) |->
        h[i + (IF Len(h) < n THEN 0 ELSE Len(h) - n)]]

\* C1 (SpecFail: requests handled one at a time, store and gateway calls
\* failing), as claimed.  When a request that ran the extraction has been
\* answered, the persisted step is the step the request started from or that
\* step plus one; the step has increased, or the state is gone (the
\* registration being finalized), only if the extraction reported is_valid;
\* and after an extraction that reported invalid the persisted state is the
\* one before the request (or the first step, nothing collected, for a
\* session that had no state).
C1_StepAdvancesOnlyWhenValid ==
    \A r \in Slots :
        LET q   == req[r]
            was == q.before.reg
            now == reg[q.sid]
        IN  (q.pc = "done" /\ q.extractionResult.called) =>
              /\ now.exists => now.step \in {Found(q).step, Found(q).step + 1}
              /\ ((now.exists /\ now.step # Found(q).step) \/ (was.exists /\ ~now.exists))
                    => Truthy(q.extractionResult.isValid)
              /\ ~Truthy(q.extractionResult.isValid)
                    => now = was \/ (~was.exists /\ now = FirstStep)

\* C2 (Spec), as claimed: the request that completes the registration writes
\* exactly one new SpaceRecord under an identifier no record had, each
\* collected field of the record equals the value collected for it, and no
\* RegistrationState is left; every other request leaves the records alone.
C2_FinalRecordMatchesCollected ==
    \A r \in Slots :
        LET q == req[r] IN
        /\ (q.pc = "done" /\ q.is_completed) =>
              /\ q.spaceId \notin DOMAIN q.before.spaces
              /\ DOMAIN spaces = DOMAIN q.before.spaces \cup {q.spaceId}
              /\ \A k \in DOMAIN q.before.spaces : spaces[k] = q.before.spaces[k]
              /\ \A f \in FieldNames :
                    q.state.data[f] \notin {Absent, JUndef}
                        => spaces[q.spaceId][f] = q.state.data[f]
              /\ ~reg[q.sid].exists
        /\ (q.pc = "done" /\ ~q.is_completed) => spaces = q.before.spaces

\* C3 (Spec), as claimed: a persisted state at step s holds exactly the
\* fields of steps 1 .. s-1, and a request that files a value changes only
\* the field of the step it loaded.
C3_KeysAreTheStepsBefore ==
    /\ \A s \in DOMAIN reg :
          reg[s].exists => Keys(reg[s].data) = FieldsUpTo(reg[s].step - 1)
    /\ \A r \in Slots :
          LET q == req[r] IN
          q.pc \in {"as_save_next", "as_genid"} =>
              \A f \in FieldNames :
                  f # SPACE_REGISTRATION_STEPS[q.currentStep].field_name
                      => q.state.data[f] = Found(q).data[f]

\* C4 (SpecConc: two requests in flight, store and gateway calls failing).
\* Every RegistrationState in the store has a step in 1 .. N+1.
C4_PersistedStepInRange ==
    \A s \in DOMAIN reg : reg[s].exists => reg[s].step \in 1..(NSteps + 1)

\* Step N was persisted by a request that was told to ask for the last
\* field, while another request of the session is inside the flow.
C4_Witness ==
    \E r1, r2 \in Slots :
        /\ r1 # r2
        /\ req[r1].reply.kind = "next"
        /\ req[r1].reply.next = "opening_hours"
        /\ reg[req[r1].sid].exists
        /\ reg[req[r1].sid].step = NSteps
        /\ req[r2].pc \in {"as_extract", "as_save_next", "as_save_retry", "as_genid"}

\* C5 (SpecFail), as claimed: when a store write, the delete or the listing
\* of generateSpaceId failed in a request of the registration, the reply is
\* the apology and the registration state and the records are those before
\* the request; and a record was written exactly when the state was deleted.
C5_FailureLeavesStoreAsBefore ==
    \A r \in Slots :
        LET q == req[r] IN
        (q.pc = "done" /\ q.intentType = "ADD_SPACE") =>
           /\ q.failed \cap {"reg_put", "reg_delete", "ids_list", "space_put"} # {}
                 => /\ q.reply.kind = "add_space_catch"
                    /\ reg[q.sid] = q.before.reg
                    /\ spaces = q.before.spaces
           /\ (spaces # q.before.spaces) <=> (q.before.reg.exists /\ ~reg[q.sid].exists)

\* C6 (SpecFail), as claimed: a request whose read of an existing state at a
\* step above 1 failed leaves that state as it was.
C6_ReadFailureKeepsProgress ==
    \A r \in Slots :
        LET q == req[r] IN
        (q.pc = "done" /\ "reg_get" \in q.failed
            /\ q.before.reg.exists /\ q.before.reg.step > 1)
          => reg[q.sid] = q.before.reg

\* One step of request r under the failures of SpecFail, its arrival apart.
FailStep(r) ==
    \/ AddMessageGet(r, FailP) \/ AddMessagePut(r, FailP)
    \/ GetContext(r, FailP) \/ Classify(r, FailP)
    \/ GetRegistration(r, FailP) \/ InitializeRegistration(r, FailP)
    \/ Extract(r, FailP) \/ SaveAdvanced(r, FailP) \/ SaveRetry(r, FailP)
    \/ GenerateId(r, FailP) \/ PutSpace(r, FailP) \/ DeleteRegistration(r, FailP)
    \/ ListAll(r, FailP) \/ GetAll(r, FailP) \/ SynthesizeSearch(r, FailP)
    \/ GenerateIntentResponse(r, FailP)

\* C7 (SpecFail: every gateway and store call may fail).  No request ends on
\* an exception that left handleAddSpaceFlow, handleSearchSpaceFlow or the
\* classifier, and none is answered with a FAILURE payload; a request that is
\* not yet answered can take its next step (every step moves forward, so it
\* is answered); once classified the intent is one of the three labels; once
\* a flow has returned there is a reply; and the answer is a SUCCESS payload
\* carrying that reply.
C7_NoExceptionEscapes ==
    \A r \in Slots :
        LET q == req[r] IN
        /\ q.pc # "crashed"
        /\ q.status \notin {"FAILURE", "EXCEPTION"}
        /\ q.pc \notin {"idle", "done"} => ENABLED FailStep(r)
        /\ q.pc \notin {"idle", "u_get", "u_put", "ctx_get", "classify"}
              => q.intentType \in IntentTypes
        /\ q.pc \in {"a_get", "a_put", "done"} => q.reply.kind # "none"
        /\ q.pc = "done" => q.status = "SUCCESS"

\* The write of the SpaceRecord failed in a request of the registration, and
\* the request was answered with a SUCCESS payload carrying the apology.
C7_Witness ==
    \E r \in Slots :
        /\ req[r].pc = "done"
        /\ "space_put" \in req[r].failed
        /\ req[r].status = "SUCCESS"
        /\ req[r].reply.kind = "add_space_catch"

\* The labels a reply names: those whose characters occur in it whatever the
\* case, tabulated per word of the alphabet.
LabelIn(w) ==
    CASE w \in {"search_space"}                               -> "SEARCH_SPACE"
      [] w \in {"ADD_SPACE", "add_spaces"}                    -> "ADD_SPACE"
      [] w \in {"CREATE_USER_PROFILE", "Create_User_Profile"} -> "CREATE_USER_PROFILE"
      [] OTHER                                                -> "none"

Named(text) == { LabelIn(text[i]) : i \in 1..Len(text) } \ {"none"}

\* C8 (SpecClassify: every gateway outcome over the word alphabet, for the
\* classifier of index.ts and for its Workers AI revision).  The result is
\* one of SEARCH_SPACE, ADD_SPACE, CREATE_USER_PROFILE, and it is
\* SEARCH_SPACE when the gateway call failed or the reply names no label.
C8_FailOpen ==
    probe.applied =>
        /\ probe.output \in IntentTypes
        /\ probe.legacy \in IntentTypes
        /\ (~probe.input.ok \/ Named(probe.input.text) = {})
              => probe.output = "SEARCH_SPACE" /\ probe.legacy = "SEARCH_SPACE"

\* The gateway call failed and the classifier returned SEARCH_SPACE.
C8_Witness ==
    /\ probe.applied
    /\ ~probe.input.ok
    /\ probe.output = "SEARCH_SPACE"
    /\ probe.legacy = "SEARCH_SPACE"

\* C9 (SpecClassify).  For a reply that came back as text, the result is the
\* first of SEARCH_SPACE, ADD_SPACE, CREATE_USER_PROFILE that the reply
\* names: ADD_SPACE only when it names ADD_SPACE and not SEARCH_SPACE.
C9_FirstLabelInOrder ==
    (probe.applied /\ probe.input.ok) =>
        /\ \A i \in 1..Len(Labels) :
              (/\ Labels[i] \in Named(probe.input.text)
               /\ \A j \in 1..(i - 1) : Labels[j] \notin Named(probe.input.text))
                 => /\ probe.output = Labels[i]
                    /\ probe.input.shape \in {"string", "object"}
                          => probe.legacy = Labels[i]
        /\ probe.output = "ADD_SPACE"
              => /\ "ADD_SPACE" \in Named(probe.input.text)
                 /\ "SEARCH_SPACE" \notin Named(probe.input.text)

\* A reply that names ADD_SPACE before SEARCH_SPACE was classified
\* SEARCH_SPACE.
C9_Witness ==
    /\ probe.applied
    /\ probe.input.ok
    /\ probe.input.shape = "string"
    /\ probe.input.text = <<"add_spaces", " ", "search_space">>
    /\ probe.output = "SEARCH_SPACE"

\* The write of a session by a request that read it: saveChatSession stores
\* what addMessageToSession built.
WritesSession(r) ==
    /\ req[r].pc \in {"u_put", "a_put"}
    /\ req'[r].pc # req[r].pc
    /\ chat'[req[r].sid] # chat[req[r].sid]

\* C10 (SpecChat), as claimed: a stored session holds at most 20 turns and
\* the context at most 10; a write whose read succeeded and that keeps fewer
\* turns than those stored just before it and the new one, keeps the 20 most
\* recent of the stored turns followed by the new turn; and the context is
\* the most recent 10 stored when it is read.
C10_WriteKeepsRecentOfStored ==
    /\ [](\A s \in DOMAIN chat : Len(chat[s].messages) <= 20)
    /\ [](\A r \in Slots : Len(req[r].context) <= 10)
    /\ [][\A r \in Slots :
            (/\ WritesSession(r)
             /\ "chat_get" \notin req[r].failed
             /\ Len(chat'[req[r].sid].messages) < Len(chat[req[r].sid].messages) + 1) =>
                chat'[req[r].sid].messages =
                    MostRecent(Append(chat[req[r].sid].messages, MessageOf(req[r])), 20)]_vars
    /\ [][\A r \in Slots :
            (req[r].pc = "ctx_get" /\ req'[r].pc = "classify"
                /\ "ctx_get" \notin req'[r].failed) =>
                req'[r].context = MostRecent(chat[req[r].sid].messages, 10)]_vars

\* C10 (SpecChat: two requests of a session in flight, chat reads and writes
\* failing), amended.  A stored session holds at most 20 turns; every change
\* of a stored session is the write of one request and stores the 20 most
\* recent of the turns that request read (none when its read failed)
\* followed by its new turn; the context holds at most 10 turns, the most
\* recent 10 stored when it was read, and none when that read failed.
C10_WriteKeepsRecentOfRead ==
    /\ [](\A s \in DOMAIN chat : Len(chat[s].messages) <= 20)
    /\ [](\A r \in Slots : Len(req[r].context) <= 10)
    /\ [][\A s \in DOMAIN chat :
            chat'[s] # chat[s] =>
                \E r \in Slots :
                    /\ WritesSession(r)
                    /\ req[r].sid = s
                    /\ chat'[s].messages =
                          MostRecent(Append(req[r].loaded.messages, MessageOf(req[r])), 20)]_vars
    /\ [][\A r \in Slots :
            (req[r].pc = "ctx_get" /\ req'[r].pc = "classify") =>
                req'[r].context =
                    IF "ctx_get" \in req'[r].failed THEN << >>
                    ELSE MostRecent(chat[req[r].sid].messages, 10)]_vars

\* A write stored 20 turns having dropped the oldest of the 21 it had, and a
\* request was handed a context of 10 turns out of more.
C10_Witness ==
    /\ \E s \in DOMAIN chat :
          /\ Len(chat[s].messages) = 20
          /\ chat[s].messages[1].timestamp > 0
    /\ \E r \in Slots :
          /\ Len(req[r].context) = 10
          /\ req[r].pc = "classify"

\* C11 (SpecChat: two requests of a session in flight), as claimed: in every
\* stored session the timestamps of the turns never decrease from the oldest
\* turn to the newest.
C11_TurnsNonDecreasing ==
    \A s \in DOMAIN chat :
        \A i, j \in 1..Len(chat[s].messages) :
            i < j => chat[s].messages[i].timestamp <= chat[s].messages[j].timestamp

\* The flows that are not the registration.
OtherIntents == {"SEARCH_SPACE", "CREATE_USER_PROFILE"}

\* C12 (SpecFail: requests handled one at a time, every store and gateway
\* call failing at will), as claimed.  A request classified SEARCH_SPACE or
\* CREATE_USER_PROFILE leaves the registration state of its session and the
\* space records as they were; the next request classified ADD_SPACE works on
\* the state that was stored before it, same step and same collected fields;
\* and a registration state leaves the store only in the delete of a
\* finalization that succeeds.
C12_OtherIntentsLeaveRegistration ==
    /\ [](\A r \in Slots :
            LET q == req[r] IN
            /\ q.intentType \in OtherIntents
                  => reg[q.sid] = q.before.reg /\ spaces = q.before.spaces
            /\ (/\ q.intentType = "ADD_SPACE"
                /\ q.prev.intentType \in OtherIntents
                /\ q.prev.reg.exists
                /\ q.pc \in {"as_extract", "as_save_next", "as_save_retry", "as_genid"})
                  => /\ q.currentStep = FindStep(q.prev.reg.step)
                     /\ \A f \in Keys(q.prev.reg.data) :
                           f # SPACE_REGISTRATION_STEPS[q.currentStep].field_name
                              => q.state.data[f] = q.prev.reg.data[f])
    /\ [][\A s \in DOMAIN reg :
            (reg[s].exists /\ ~reg'[s].exists) =>
                \E r \in Slots :
                    /\ req[r].pc = "as_delete"
                    /\ req[r].sid = s
                    /\ req'[r].reply.kind = "complete"]_vars

\* The store calls of a request.
StoreSites ==
    { "chat_get", "chat_put", "ctx_get", "reg_get", "reg_put", "ids_list",
      "space_put", "reg_delete", "all_list", "all_get" }

\* A request of the registration on a session that had no state, answered.
FirstOfRegistration(q) ==
    q.pc = "done" /\ q.intentType = "ADD_SPACE" /\ ~q.before.reg.exists

\* The extraction reported a value: is_valid holds and the value is not null.
Reported(q) ==
    q.extractionResult.isValid \notin {"bool:false", JNull, JUndef}
        /\ q.extractionResult.extracted # JNull

\* C13 (SpecFail), as claimed, for the requests none of whose store calls
\* failed: the first registration request of a session that had no state is
\* answered with the prompt for the name, and the state is persisted at
\* step 1 with nothing collected, whatever the extraction returned.
C13_FirstRequestStaysAtStepOne ==
    \A r \in Slots :
        LET q == req[r] IN
        (FirstOfRegistration(q) /\ q.failed \cap StoreSites = {}) =>
            /\ q.reply.kind = "retry"
            /\ q.reply.field = "name"
            /\ reg[q.sid] = FirstStep

\* C13 (SpecFail: every store and gateway call failing at will), amended.
\* The first registration request of a session that had no state runs the
\* extraction for step 1 on its own message.  When no value is reported
\* (gateway failure, unparseable reply, is_valid false or a null value) the
\* reply asks for the name again and the store holds step 1 with nothing
\* collected, or no state if no write succeeded.  When a value is reported
\* the reply confirms the name and prompts for the address, and the store
\* holds step 2 with the value as the name (no name if the value was
\* missing), unless that write failed.
C13_FirstRequestRunsExtraction ==
    \A r \in Slots :
        LET q    == req[r]
            now  == reg[q.sid]
            name == q.extractionResult.extracted
        IN  FirstOfRegistration(q) =>
              /\ ~Reported(q) =>
                    /\ q.reply.kind = "retry" /\ q.reply.field = "name"
                    /\ now \in {NoState, FirstStep}
                    /\ "reg_put" \notin q.failed => now = FirstStep
              /\ Reported(q) =>
                    /\ q.reply.kind = "next"
                    /\ q.reply.field = "name" /\ q.reply.next = "address"
                    /\ now.exists => now.step \in {1, 2} /\ Keys(now.data) \subseteq {"name"}
                    /\ "reg_put" \notin q.failed =>
                          /\ now.exists /\ now.step = 2
                          /\ now.data = [EmptyData EXCEPT
                                           !["name"] = IF name = JUndef THEN Absent ELSE name]

\* The first registration request of a new session got a name from its own
\* message: the store holds step 2 and the reply prompts for the address.
C13_Witness ==
    \E r \in Slots :
        /\ FirstOfRegistration(req[r])
        /\ req[r].failed = {}
        /\ req[r].extractionResult.extracted = "str:Studio A"
        /\ req[r].reply.kind = "next"
        /\ req[r].reply.next = "address"
        /\ reg[req[r].sid].step = 2
        /\ reg[req[r].sid].data["name"] = "str:Studio A"

\* An extraction result that is valid in the catalogue's sense: is_valid is
\* true and the value is there and not empty.
ValidExtraction(q) ==
    /\ q.extractionResult.called
    /\ q.extractionResult.isValid = "bool:true"
    /\ q.extractionResult.extracted \notin {JNull, JUndef, EmptyStr}

\* The request has been answered; it loaded the stored state of its session,
\* at a step before the last one, and its write of the state went through.
LoadedBeforeLast(q) ==
    /\ q.pc = "done"
    /\ q.intentType = "ADD_SPACE"
    /\ q.before.reg.exists
    /\ q.before.reg.step \in 1..(NSteps - 1)
    /\ q.failed \cap {"reg_get", "reg_put"} = {}

\* C14 (Spec; it holds under SpecFail too).  For every step s before the
\* last, when a request that loaded the state at step s, got a valid
\* extraction and wrote the state has been answered, the persisted state has
\* step s+1 and the mapping the request found plus the extracted value under
\* the field of step s, and the reply confirms the field of step s and
\* prompts for the field of step s+1.
C14_ValidExtractionAdvances ==
    \A r \in Slots :
        LET q == req[r]
            s == q.before.reg.step
            f == SPACE_REGISTRATION_STEPS[s].field_name
        IN  LoadedBeforeLast(q) /\ ValidExtraction(q) =>
               /\ reg[q.sid] = [exists |-> TRUE, step |-> s + 1,
                                data |-> [q.before.reg.data EXCEPT
                                            ![f] = q.extractionResult.extracted]]
               /\ q.reply = [NoReply EXCEPT
                               !.kind = "next", !.field = f,
                               !.next = SPACE_REGISTRATION_STEPS[s + 1].field_name]

\* The case of C14 has happened: a valid address was extracted at step 2.
C14_Case ==
    \E r \in Slots :
        /\ LoadedBeforeLast(req[r]) /\ ValidExtraction(req[r])
        /\ req[r].before.reg.step = 2
        /\ req[r].reply.next = "space_type"

\* The extraction reported is_valid true with a value that is null, missing
\* or the empty string.
ValidButEmpty(q) ==
    /\ q.extractionResult.called
    /\ q.extractionResult.isValid = "bool:true"
    /\ q.extractionResult.extracted \in {JNull, JUndef, EmptyStr}

\* C15 (Spec: one request at a time, no store call fails), as claimed.  When
\* a request whose extraction is valid with a null, missing or empty value
\* has been answered, the persisted step and collected_data are the ones the
\* request started from and the reply is the retry reply for that step.
C15_EmptyValueDoesNotAdvance ==
    \A r \in Slots :
        LET q == req[r] IN
        q.pc = "done" /\ q.intentType = "ADD_SPACE" /\ ValidButEmpty(q) =>
            /\ reg[q.sid] = Found(q)
            /\ q.reply.kind = "retry"
            /\ q.reply.field = SPACE_REGISTRATION_STEPS[Found(q).step].field_name

\* The field was not collected: completeSpaceData reads it as undefined.
NotCollected(data, f) == ReadKey(data, f) = JUndef

\* C16 (Spec), as claimed.  Every SpaceRecord written by a finalization has
\* the booking policy cancellation = false, modification = false and
\* deposit_required = false and the sensor flags false; where the request
\* that wrote it had collected no amenities the record's list is empty, and
\* where it had collected no opening hours they are "closed" every day.
C16_DocumentedDefaults ==
    \A r \in Slots : \A k \in req[r].wrote :
        LET record == spaces[k]
            data   == req[r].state.data
        IN  /\ record.booking_policy.cancellation = FALSE
            /\ record.booking_policy.modification = FALSE
            /\ record.booking_policy.deposit_required = FALSE
            /\ record.sensors = [noise |-> FALSE, cctv |-> FALSE]
            /\ NotCollected(data, "amenities") => record.amenities = EmptyArr
            /\ NotCollected(data, "opening_hours") => record.opening_hours = ClosedHours

\* The request holds an identifier that generateSpaceId returned from a key
\* scan that succeeded, and has not written the record yet.
Scanned(q) == q.pc = "as_put_space" /\ "ids_list" \notin q.failed

\* C17 (SpecStore: finalizations handled one at a time, on stores that hold
\* records with counted and time-based identifiers).  The identifier returned
\* by generateSpaceId after a key scan that succeeded is 1 when no record is
\* stored, and otherwise one more than the largest stored identifier: it is
\* the key of no stored record.  The write of a record under an identifier
\* so obtained adds one record and leaves every stored record as it was.
C17_FreshIdentifier ==
    /\ [](\A r \in Slots :
            Scanned(req[r]) =>
               /\ \A k \in DOMAIN spaces : k < req[r].spaceId
               /\ req[r].spaceId = 1 \/ (req[r].spaceId - 1) \in DOMAIN spaces)
    /\ [][\A r \in Slots :
            Scanned(req[r]) /\ req'[r].pc # "as_put_space" =>
               /\ \A k \in DOMAIN spaces : k \in DOMAIN spaces' /\ spaces'[k] = spaces[k]
               /\ DOMAIN spaces' \subseteq DOMAIN spaces \cup {req[r].spaceId}]_vars

\* The case of C17 has happened: a finalization wrote its record next to a
\* record with a time-based identifier, under the identifier after it, and
\* both are stored.
C17_Witness ==
    \E r \in Slots :
        /\ req[r].pc = "done" /\ "ids_list" \notin req[r].failed
        /\ req[r].wrote = {EpochOffset + 1}
        /\ DOMAIN spaces = {1, EpochOffset, EpochOffset + 1}
        /\ req[r].reply.kind = "complete"

\* At least one keyword rule fires on the record: the message has the
\* keyword and the record's field holds a paired marker.
RuleFires(space, message) ==
    \E i \in 1..Len(SearchRules) :
        /\ SearchRules[i].keyword \in message
        /\ MarkersIn(space[SearchRules[i].field]) \cap SearchRules[i].markers # {}

\* The request was a search that has been answered, and its listing and
\* reads of the store went through.
Searched(q) ==
    /\ q.pc = "done"
    /\ q.intentType = "SEARCH_SPACE"
    /\ q.failed \cap {"all_list", "all_get"} = {}

\* C18 (SpecStore), as claimed.  When a search whose store calls went through
\* has been answered, its result set is the set of the stored records on
\* which at least one keyword rule fires, total_count is the number of
\* records returned and the payload is a SUCCESS; for a message with no
\* recognized keyword the result set is empty and total_count is 0.
C18_ResultIsTheMatchingRecords ==
    \A r \in Slots :
        LET q == req[r] IN
        Searched(q) =>
            /\ q.data = { k \in DOMAIN q.before.spaces :
                            RuleFires(q.before.spaces[k], q.message) }
            /\ q.total_count = Cardinality(q.data)
            /\ q.status = "SUCCESS"
            /\ q.message \cap Keywords = {} => q.data = {} /\ q.total_count = 0

\* C19 (SpecStore), as claimed.  When a search during which the key listing,
\* a record read or the filter and mapping of the records failed has been
\* answered, the response has no result, total_count 0, the search_mode
\* "ERROR" and the fixed apology of the search flow as its text.
C19_SearchFailureIsMarked ==
    \A r \in Slots :
        LET q == req[r] IN
        /\ q.pc = "done"
        /\ q.intentType = "SEARCH_SPACE"
        /\ q.failed \cap {"all_list", "all_get", "search_map"} # {}
        => /\ q.data = {}
           /\ q.total_count = 0
           /\ q.search_mode = "ERROR"
           /\ q.reply.kind = "search_catch"

\* The request has been answered with a text of the synthesizer for search
\* results whose gateway call failed.
SearchFallback(q) ==
    q.pc = "done" /\ q.intentType = "SEARCH_SPACE" /\ "gw_search" \in q.failed

\* The request has been answered with a text of the synthesizer for generic
\* intents whose gateway call failed.
ProfileFallback(q) ==
    q.pc = "done" /\ q.intentType = "CREATE_USER_PROFILE" /\ "gw_generic" \in q.failed

\* C20 (SpecStore).  When the gateway call of the synthesizer has failed:
\* for a search with at least one match the reply is the template that
\* states the number of matches and names the first record of the result,
\* for a search with no match it is the not-found apology, for
\* CREATE_USER_PROFILE it is the profile prompt; in each case the text has a
\* fixed part that is not empty.
C20_FallbackReflectsResult ==
    \A r \in Slots :
        LET q == req[r] IN
        /\ SearchFallback(q) /\ q.data # {} =>
              /\ q.reply.kind = "search_found"
              /\ q.reply.count = Cardinality(q.data)
              /\ q.reply.count = q.total_count
              /\ q.reply.first \in q.data
              /\ \A k \in q.data \ {q.reply.first} : KeyBefore(q.reply.first, k)
        /\ SearchFallback(q) /\ q.data = {} => q.reply.kind = "search_none"
        /\ ProfileFallback(q) => q.reply.kind = "profile_fallback"
        /\ SearchFallback(q) \/ ProfileFallback(q) => FixedText(q.reply.kind) # ""

\* The case of C20 has happened: the gateway failed for a search that matched
\* space-2 and space-1000, and the reply names space-1000, listed first.
C20_Witness ==
    \E r \in Slots :
        /\ SearchFallback(req[r])
        /\ req[r].data = {2, EpochOffset}
        /\ req[r].reply.first = EpochOffset
        /\ req[r].reply.count = 2

\* The body is one the validation is to refuse: null, or with a message that
\* is missing, no string or empty after trimming, or with a session_id that
\* is missing, no string or empty.
Invalid(requestBody) ==
    \/ requestBody.json = "null"
    \/ requestBody.message \in {JUndef, JNull, "num:10", EmptyStr, Blank}
    \/ requestBody.session_id \in {JUndef, JNull, "num:10", EmptyStr}

\* C21 (SpecValidate).  The step that takes in a request with an invalid body
\* answers it at once with a FAILURE payload that carries an error message,
\* and leaves the sessions, the registration states and the records as they
\* are; the request made no store or gateway call (none failed, nothing was
\* classified, synthesized or written), and the clock was not read.
C21_InvalidBodyNeverReachesCore ==
    /\ [](\A r \in Slots :
            req[r].body.json # "-" /\ Invalid(req[r].body) =>
               /\ req[r].pc = "done"
               /\ req[r].status = "FAILURE"
               /\ req[r].error # ""
               /\ req[r] = [IdleRequest EXCEPT !.pc = "done", !.status = "FAILURE",
                                               !.error = req[r].error,
                                               !.body = req[r].body])
    /\ [][\A r \in Slots :
            req'[r] # req[r] /\ Invalid(req'[r].body) /\ req'[r].body.json # "-" =>
               UNCHANGED <<chat, reg, spaces, clock>>]_vars

\* The case of C21 has happened: a body with a blank message for session A
\* was refused after an accepted request had created the session.
C21_Witness ==
    \E r \in Slots :
        /\ req[r].body = Body("object", Blank, "str:A")
        /\ req[r].status = "FAILURE"
        /\ req[r].error = "Message cannot be empty"
        /\ chat["A"].exists

\* The request has been answered; it worked on step s, before the last one,
\* and got a valid extraction.
AdvancedFrom(q, s) ==
    /\ q.pc = "done"
    /\ q.intentType = "ADD_SPACE"
    /\ q.currentStep = s
    /\ s < NSteps
    /\ ValidExtraction(q)

\* C22 (SpecRace: two requests of one session in flight at once, no call
\* failing).  When two requests that both worked on step s (before the last
\* one) with a valid extraction have been answered, the persisted state has
\* step s+1, and its collected_data is the mapping one of the two loaded
\* plus, under the field of step s, the value that request extracted; each save
\* of an advanced state leaves in the store the value of the request that
\* made it, so that the value that stays is that of the request that saved
\* last.
C22_BothAdvanceOnce ==
    /\ [](\A r1, r2 \in Slots : \A s \in 1..(NSteps - 1) :
            r1 # r2 /\ req[r1].sid = req[r2].sid
            /\ AdvancedFrom(req[r1], s) /\ AdvancedFrom(req[r2], s) =>
               LET f == SPACE_REGISTRATION_STEPS[s].field_name
                   now == reg[req[r1].sid]
               IN  /\ now.exists /\ now.step = s + 1
                   /\ \E r \in {r1, r2} :
                          now.data = [req[r].start.data EXCEPT
                                        ![f] = req[r].extractionResult.extracted])
    /\ [][\A r \in Slots :
            req[r].pc = "as_save_next" /\ req'[r].pc # "as_save_next" =>
               LET f == SPACE_REGISTRATION_STEPS[req[r].currentStep].field_name
               IN  /\ reg'[req[r].sid].step = req[r].currentStep + 1
                   /\ reg'[req[r].sid].data[f] = req[r].extractionResult.extracted]_vars

\* The case of C22 has happened: two requests both worked on step 2 and
\* extracted two different addresses; one of them is stored at step 3.
C22_Witness ==
    /\ AdvancedFrom(req[1], 2) /\ AdvancedFrom(req[2], 2)
    /\ req[1].extractionResult.extracted = "str:Incheon"
    /\ req[2].extractionResult.extracted = "str:Seoul"
    /\ reg["A"].step = 3 /\ reg["A"].data["address"] = "str:Incheon"

\* The request is past a key scan that succeeded and has written no record yet.
ScannedOnly(q) == Scanned(q) /\ q.wrote = {}

\* The two requests, of two sessions, were answered with the completion
\* reply after key scans that succeeded, and were given the same identifier.
Raced(q1, q2) ==
    /\ q1.sid # q2.sid
    /\ q1.pc = "done" /\ q2.pc = "done"
    /\ q1.reply.kind = "complete" /\ q2.reply.kind = "complete"
    /\ "ids_list" \notin (q1.failed \cup q2.failed)
    /\ q1.spaceId = q2.spaceId

\* C23 (SpecIds: the finalizations of two sessions in flight at once).  When
\* the key scans of both have succeeded and neither has written its record,
\* the store being as each request found it, the two hold the same
\* identifier.  A write under an identifier that is already a key replaces
\* the record stored under it and adds none.  When both requests have been
\* answered with the completion reply under that identifier, both replies
\* carry it, the store holds one record more than before the two, and the
\* record under the identifier is the one of one of the two requests.
C23_IdentifierRace ==
    /\ [](\A r1, r2 \in Slots :
            /\ r1 # r2 /\ req[r1].sid # req[r2].sid
            /\ ScannedOnly(req[r1]) /\ ScannedOnly(req[r2])
            /\ spaces = req[r1].before.spaces /\ spaces = req[r2].before.spaces
            => req[r1].spaceId = req[r2].spaceId)
    /\ [][\A r \in Slots :
            /\ req[r].pc = "as_put_space" /\ req'[r].pc = "as_delete"
            /\ req[r].spaceId \in DOMAIN spaces
            => /\ DOMAIN spaces' = DOMAIN spaces
               /\ spaces'[req[r].spaceId] =
                      completeSpaceData(req[r].spaceId, req[r].state.data)
               /\ \A k \in DOMAIN spaces \ {req[r].spaceId} : spaces'[k] = spaces[k]]_vars
    /\ [](\A r1, r2 \in Slots :
            Raced(req[r1], req[r2]) =>
               LET id == req[r1].spaceId IN
               /\ req[r1].reply.space_id = id /\ req[r2].reply.space_id = id
               /\ DOMAIN spaces = DOMAIN req[r1].before.spaces \cup {id}
               /\ id \notin DOMAIN req[r1].before.spaces
               /\ \E r \in {r1, r2} :
                      spaces[id] = completeSpaceData(id, req[r].state.data))

\* The case of C23 has happened: the requests of sessions A and B extracted
\* two different opening hours, both were answered with the completion reply
\* for identifier 2 on a store that held record 1, and the record stored
\* under 2 is the one of session B: the one of session A is gone.
C23_Witness ==
    /\ Raced(req[1], req[2])
    /\ req[1].sid = "A" /\ req[2].sid = "B"
    /\ req[1].state.data["opening_hours"] = "obj:hours"
    /\ req[2].state.data["opening_hours"] = ClosedHours
    /\ DOMAIN spaces = {1, 2}
    /\ req[1].reply.space_id = 2 /\ req[2].reply.space_id = 2
    /\ spaces[2].opening_hours = ClosedHours

\* The history `new` holds every turn of `old` in order and at its head, but
\* for the oldest turns of `old`, which may be missing from a history that
\* is at the cap.
KeepsUpToTruncation(old, new) ==
    \E k \in 0..Len(old) :
        /\ k > 0 => Len(new) = SessionCap
        /\ Len(new) >= Len(old) - k
        /\ \A i \in 1..(Len(old) - k) : new[i] = old[i + k]

Stored(role, timestamp) ==
    \E i \in 1..Len(chat["A"].messages) :
        /\ chat["A"].messages[i].role = role
        /\ chat["A"].messages[i].timestamp = timestamp

RegistrationFlow ==
    {"as_get", "as_init", "as_extract", "as_save_next", "as_save_retry",
     "as_genid", "as_put_space", "as_delete"}

SearchFlow == {"ss_list", "ss_get", "ss_synth"}

GenericFlow == {"gi_gen"}

\* The user turn and the assistant turn of a request.
UserTurn(q) ==
    [role |-> "user", timestamp |-> q.ts, content |-> UserText, intent_type |-> "undefined"]

AssistantTurn(q) ==
    [role |-> "assistant", timestamp |-> q.ats, content |-> q.reply,
     intent_type |-> q.intentType]

\* C25 (SpecFail: requests handled one at a time, every store and gateway
\* call failing at will).  When the classifier is about to run and no read or
\* write of the session failed, the context ends with the user turn of the
\* request.  A request is inside the registration flow only when classified
\* ADD_SPACE, inside the search flow only when classified SEARCH_SPACE and at
\* the generic synthesizer only when classified CREATE_USER_PROFILE, and the
\* classifier hands every request to the flow of its classification.  The
\* assistant turn is added from a flow that has returned its reply.  When a
\* request none of whose store calls failed has been answered, the stored
\* history is the one before the request followed by its user turn and its
\* assistant turn (the 20 most recent of them), and the assistant turn holds
\* the llm_response and the intent_type of the response.
C25_PerRequestOrdering ==
    /\ [](\A r \in Slots :
            LET q == req[r] IN
            /\ q.pc = "classify" /\ q.failed \cap {"chat_get", "chat_put", "ctx_get"} = {}
                  => /\ Len(q.context) > 0
                     /\ q.context[Len(q.context)] = UserTurn(q)
                     /\ chat[q.sid].messages[Len(chat[q.sid].messages)] = UserTurn(q)
            /\ q.pc \in RegistrationFlow => q.intentType = "ADD_SPACE"
            /\ q.pc \in SearchFlow => q.intentType = "SEARCH_SPACE"
            /\ q.pc \in GenericFlow => q.intentType = "CREATE_USER_PROFILE"
            /\ q.pc \in {"u_get", "u_put", "ctx_get", "classify"} =>
                  q.intentType = "NONE" /\ q.reply = NoReply
            /\ q.pc \in {"a_get", "a_put"} => q.reply.kind # "none"
            /\ q.pc = "done" /\ q.status = "SUCCESS" /\ q.failed \cap StoreSites = {}
                  => /\ chat[q.sid].messages =
                           MostRecent(q.before.chat.messages \o
                                         << UserTurn(q), AssistantTurn(q) >>, SessionCap)
                     /\ Len(chat[q.sid].messages) =
                           Len(q.before.chat.messages) + 2)
    /\ [][\A r \in Slots :
            /\ req[r].pc = "classify" /\ req'[r].pc # "classify" =>
                  /\ req'[r].intentType \in
                        {"ADD_SPACE", "SEARCH_SPACE", "CREATE_USER_PROFILE"}
                  /\ req'[r].pc = "as_get" <=> req'[r].intentType = "ADD_SPACE"
                  /\ req'[r].pc = "ss_list" <=> req'[r].intentType = "SEARCH_SPACE"
                  /\ req'[r].pc = "gi_gen" <=> req'[r].intentType = "CREATE_USER_PROFILE"
            /\ req'[r].pc = "a_get" /\ req[r].pc # "a_get" =>
                  req[r].pc \in RegistrationFlow \cup SearchFlow \cup GenericFlow]_vars

\* The case of C25 has happened: a request classified SEARCH_SPACE, none of
\* whose calls failed, was answered after another request of the session, and
\* the stored history is the four turns of the two, the last one holding the
\* reply and the intent of the response.
C25_Witness ==
    LET q == req[1] IN
    /\ q.pc = "done" /\ q.status = "SUCCESS" /\ q.failed = {}
    /\ q.intentType = "SEARCH_SPACE"
    /\ Len(q.before.chat.messages) = 2
    /\ Len(chat["A"].messages) = 4
    /\ chat["A"].messages[3] = UserTurn(q)
    /\ chat["A"].messages[4].content = q.reply
    /\ chat["A"].messages[4].intent_type = "SEARCH_SPACE"

\* The request is past the read of the registration state, the read
\* succeeded, and the state read has a step with no catalogue entry.
LoadedStray(q) ==
    /\ q.intentType = "ADD_SPACE" /\ q.pc # "as_get"
    /\ "reg_get" \notin q.failed
    /\ q.before.reg.exists /\ FindStep(q.before.reg.step) = 0

\* C26 (SpecStray: requests handled one at a time on a stored state whose
\* step is 0 or N+1).  A request that loaded a state whose step has no
\* catalogue entry is out of the flow with the start-over reply, not
\* completed; the flow asked the gateway for no extraction and wrote no
\* record, and the stored registration state and the space records are those
\* of before the request.
C26_StrayStepLeavesStore ==
    \A r \in Slots :
        LET q == req[r] IN
        LoadedStray(q) =>
            /\ q.pc \in {"a_get", "a_put", "done"}
            /\ q.reply = [NoReply EXCEPT !.kind = "add_space_error"]
            /\ ~q.is_completed
            /\ ~q.extractionResult.called
            /\ q.wrote = {}
            /\ reg[q.sid] = q.before.reg
            /\ spaces = q.before.spaces

\* The case of C26 has happened: a request that loaded a state at step N+1
\* with the N fields collected was answered with the start-over reply.
C26_Witness ==
    /\ LoadedStray(req[1])
    /\ req[1].pc = "done"
    /\ req[1].before.reg.step = NSteps + 1
    /\ req[1].reply.kind = "add_space_error"
    /\ reg["A"].step = NSteps + 1

\* The request was classified ADD_SPACE, ran the extraction, got a result
\* that the flow does not accept, and has been answered.
AnsweredInvalid(q) ==
    /\ q.pc = "done" /\ q.intentType = "ADD_SPACE"
    /\ q.extractionResult.called /\ ~Accepted(q.extractionResult)

\* C27 (SpecFail: requests handled one at a time, every store and gateway
\* call failing at will), as claimed.  After a request classified ADD_SPACE
\* whose extraction was invalid, the stored registration state is the one of
\* before the request, same step and same collected_data (the first step,
\* nothing collected, or still none, for a session that had none), the
\* registration is not completed, and the reply restates the step the
\* session was on; a run of k such requests therefore leaves the session on
\* its step.
C27_InvalidNeverMoves ==
    \A r \in Slots :
        LET q == req[r] IN
        AnsweredInvalid(q) =>
            /\ reg[q.sid] = q.before.reg
                  \/ (~q.before.reg.exists /\ reg[q.sid] = FirstStep)
            /\ ~q.is_completed
            /\ q.reply.kind = "retry"
            /\ q.reply.field = SPACE_REGISTRATION_STEPS[Found(q).step].field_name

\* The registration of session A is complete: a record is stored and the
\* registration state is gone.
Completed == spaces # NoSpaces /\ ~reg["A"].exists

\* C28 (SpecLive: requests of a session handled one at a time, no store call
\* failing, every awaited call run to its end, requests classified
\* ADD_SPACE and valid extractions occurring again and again).  The stored
\* state has counted the valid extractions since it was created: its step
\* is their number plus one and its collected_data holds one field for each;
\* the stored step changes only by one, in a request whose extraction was
\* valid; a record is written only by the request that loaded step N, the
\* N-1 fields before it collected, and extracted the N-th value; and the
\* registration is eventually complete.
C28_RegistrationCompletes ==
    /\ [](reg["A"].exists =>
             /\ reg["A"].step \in 1..NSteps
             /\ Keys(reg["A"].data) = FieldsUpTo(reg["A"].step - 1))
    /\ [][\A r \in Slots :
            /\ reg["A"].exists /\ reg'["A"].exists /\ reg'["A"].step # reg["A"].step =>
                  /\ reg'["A"].step = reg["A"].step + 1
                  /\ req[r].pc = "as_save_next"
                  /\ req[r].start.step = reg["A"].step
                  /\ Accepted(req[r].extractionResult)
            /\ spaces' # spaces =>
                  /\ req[r].pc = "as_put_space"
                  /\ req[r].start.step = NSteps
                  /\ Keys(req[r].start.data) = FieldsUpTo(NSteps - 1)
                  /\ Accepted(req[r].extractionResult)
                  /\ Keys(req[r].state.data) = FieldsUpTo(NSteps)
            /\ reg["A"].exists /\ ~reg'["A"].exists =>
                  req[r].pc = "as_delete" /\ spaces # NoSpaces]_vars
    /\ <>[]Completed

\* The case of C28 has happened: the request that loaded step N with seven
\* fields collected got a valid extraction, the record with the eight fields
\* is stored and the registration state is deleted.
C28_Witness ==
    /\ Completed
    /\ req[1].pc = "done" /\ req[1].is_completed
    /\ req[1].start.step = NSteps
    /\ req[1].reply.kind = "complete" /\ req[1].reply.space_id = 1
    /\ 1 \in DOMAIN spaces /\ spaces[1].opening_hours = "obj:hours"

\* C29 (SpecIds: the finalizations of two sessions in flight at once, the
\* key scan failing), as claimed.  A request whose key scan failed goes on
\* to the write with a time-based identifier, which is the key of no stored
\* record for as long as the request has not written; once answered, the
\* request has the completion reply with that identifier, the record is
\* stored under it and the registration state of its session is deleted.
C29_FallbackIdentifier ==
    \A r \in Slots :
        LET q == req[r] IN
        q.intentType = "ADD_SPACE" /\ "ids_list" \in q.failed =>
            /\ q.pc \in {"as_put_space", "as_delete", "a_get", "a_put", "done"}
            /\ q.spaceId >= EpochOffset
            /\ q.pc = "as_put_space" => q.spaceId \notin DOMAIN spaces
            /\ q.pc = "done" =>
                  /\ q.reply.kind = "complete" /\ q.reply.space_id = q.spaceId
                  /\ q.is_completed
                  /\ q.spaceId \in DOMAIN spaces
                  /\ ~reg[q.sid].exists

\* C30 (SpecFail: requests handled one at a time, every store and gateway
\* call failing at will), as claimed.  When a request whose extraction was
\* valid, with a value that is not empty, has been answered with the reply
\* that confirms the field of its step and prompts for the next step, the
\* stored registration state is at the next step and holds the extracted
\* value under the confirmed field.
C30_ReplyMatchesStore ==
    \A r \in Slots :
        LET q == req[r]
            f == SPACE_REGISTRATION_STEPS[q.currentStep].field_name
        IN  q.pc = "done" /\ q.reply.kind = "next" /\ ValidExtraction(q) =>
               /\ q.reply.field = f
               /\ reg[q.sid].exists
               /\ reg[q.sid].step = q.currentStep + 1
               /\ reg[q.sid].data[f] = q.extractionResult.extracted

\* The stored state `new` is not behind the stored state `old`: its step is
\* not lower and it holds every field that `old` holds.
NotBehind(old, new) ==
    /\ new.step >= old.step
    /\ Keys(old.data) \subseteq Keys(new.data)

\* C31 (SpecRace), as claimed: while the registration state of a session is
\* stored, no step of any request lowers its step or removes a collected
\* field from it.
C31_StoredStepNeverDecreases ==
    [][\A s \in DOMAIN reg :
          reg[s].exists /\ reg'[s].exists => NotBehind(reg[s], reg'[s])]_vars

\* C31 (SpecRace: two requests of one session in flight at once, no call
\* failing), amended.  Every change of the stored registration state is the
\* write of one request: the first-step state with nothing collected, by a
\* request that had found no state, or the state the request loaded or
\* created, as it is or advanced by one step with the field of its step
\* filed.  The write is therefore not behind the state the writer loaded,
\* and not behind the stored state when that is still the one it loaded.
C31_WriteIsNotBehindWhatWasLoaded ==
    [][\A s \in DOMAIN reg :
          reg'[s] # reg[s] =>
             \E r \in Slots :
                LET q == req[r] IN
                /\ q.sid = s /\ req'[r] # q
                /\ \/ /\ q.pc = "as_init"
                      /\ reg'[s] = InitialRegistration
                      /\ reg[s].exists => NotBehind(q.before.reg, reg'[s])
                   \/ /\ q.pc \in {"as_save_next", "as_save_retry"}
                      /\ reg'[s].exists
                      /\ NotBehind(q.start, reg'[s])
                      /\ reg'[s].step \in {q.start.step, q.start.step + 1}
                      /\ reg[s] = q.start => NotBehind(reg[s], reg'[s])]_vars

\* The case of C31 has happened: both requests were answered, the first was
\* told that the address is registered and asked for the space type, having
\* persisted step 3, and the stored state is at step 2 without the address:
\* the second request, which had loaded step 2 and extracted nothing, saved
\* its copy last.
C31_Witness ==
    /\ AdvancedFrom(req[1], 2) /\ req[1].reply.kind = "next"
    /\ req[2].pc = "done" /\ req[2].reply.kind = "retry" /\ req[2].start.step = 2
    /\ reg["A"].exists /\ reg["A"].step = 2
    /\ reg["A"].data["address"] = Absent

\* The request loaded the state of a registration at its last step and has
\* written a record.
WroteFromLastStep(q) == q.start.exists /\ q.start.step = NSteps /\ q.wrote # {}

WrittenSpaces == { k \in DOMAIN spaces' : k \notin DOMAIN spaces \/ spaces'[k] # spaces[k] }

\* C33 (SpecIsolate: two sessions, two requests in flight at once, every
\* classification, every store call failing at will).  Every step is the
\* step of one request; it leaves the conversation and the registration
\* state of every session but the request's own as they were, removes no
\* record, and writes at most one record, which only the write of the
\* finalization does.
C33_SessionIsolation ==
    [][\E r \in Slots :
          /\ req'[r] # req[r]
          /\ \A t \in DOMAIN chat :
                t # req'[r].sid => chat'[t] = chat[t] /\ reg'[t] = reg[t]
          /\ DOMAIN spaces \subseteq DOMAIN spaces'
          /\ Cardinality(WrittenSpaces) <= 1
          /\ WrittenSpaces # {} => req[r].pc = "as_put_space"
          /\ \A o \in Slots : o # r => req'[o] = req[o]]_vars

\* The case of C33 has happened: a request of session A has finalized the
\* registration of A (its state is deleted, its turns and record 2 are stored)
\* while a request of session B is inside the flow: the state of B is the
\* one B had, and the conversation of B holds the user turn of B only.
C33_Witness ==
    /\ req[1].sid = "A" /\ req[1].pc = "done" /\ req[1].reply.kind = "complete"
    /\ req[2].sid = "B" /\ req[2].pc = "as_extract"
    /\ ~reg["A"].exists /\ Len(chat["A"].messages) = 2
    /\ 2 \in DOMAIN spaces
    /\ reg["B"] = Collected(NSteps - 1)
    /\ Len(chat["B"].messages) = 1 /\ chat["B"].messages[1].role = "user"

\* C34: the search loads every key of the store, the conversations and the
\* registration states too, but its result never holds one of them, whatever
\* the message says and whatever a registration state has collected (an
\* address, amenities or a space_type that the message names included): a
\* result holds only keys of finalized records of the store, and the count
\* is the number of those records.
C34_OnlySpaceRecordsReturned ==
    \A r \in Slots :
        /\ req[r].foreign = {}
        /\ req[r].data \subseteq DOMAIN spaces
        /\ req[r].total_count = Cardinality(req[r].data)

\* A search that names Incheon has answered with the one record there; the
\* conversation of the session and its registration state, which has collected
\* the address Incheon, an indoor space_type and the amenity audio, were both
\* listed and loaded, and both are still in the store.
C34_Witness ==
    \E r \in Slots :
        /\ req[r].pc = "done"
        /\ req[r].message = {"incheon"}
        /\ req[r].intentType = "SEARCH_SPACE"
        /\ req[r].search_mode # "ERROR"
        /\ req[r].keys.chat = {req[r].sid}
        /\ req[r].keys.reg = {req[r].sid}
        /\ req[r].data = {1}
        /\ req[r].total_count = 1
        /\ chat[req[r].sid].exists
        /\ reg[req[r].sid].exists
        /\ reg[req[r].sid].data["address"] = "str:Incheon"
        /\ reg[req[r].sid].data["space_type"] = "str:indoor"
        /\ reg[req[r].sid].data["amenities"] = "arr:audio"

====
